---- MODULE Spec2Model ----
(***************************************************************************)
(* A model of the regression-test harness of plotex: regtest.py (the test  *)
(* driver, its check engine and its RemGlk display-state reconstructor)    *)
(* and the twin reconstructor of ifomatic.py.                              *)
(*                                                                         *)
(* Python values are represented as follows.  None in an integer-valued    *)
(* field (a window id, a generation) is the integer None = -1; an optional *)
(* list or dict field of an update is Absent (<<>>) or Some(v) (<<v>>); a  *)
(* string is a sequence of one-character strings, so that concatenation    *)
(* and substring search are computed and not assumed.                      *)
(***************************************************************************)
EXTENDS Integers, Sequences, FiniteSets, TLC

None == 0 - 1
Absent == << >>
Some(x) == << x >>
IsSome(o) == o # << >>

\* Python truthiness of an integer-or-None value: None and 0 are both false.
Truthy(x) == x # None /\ x # 0

(***************************************************************************)
(* Bounds of the model.                                                    *)
(***************************************************************************)
MaxGen == 1
MaxWinId == 2
MaxChecks == 2
MaxUpdates == 2

Chars == {"a", "b"}
WinIds == 0 .. MaxWinId
GenVals == (0 .. MaxGen) \cup {None}

(***************************************************************************)
(* Strings.                                                                *)
(***************************************************************************)
\* Python's "needle in line" for strings.
StrIn(needle, line) ==
    \E i \in 0 .. Len(line) :
        /\ i + Len(needle) <= Len(line)
        /\ SubSeq(line, i + 1, i + Len(needle)) = needle

RECURSIVE Join(_)
\* ''.join(list)
Join(ls) == IF ls = << >> THEN << >> ELSE Head(ls) \o Join(Tail(ls))

(***************************************************************************)
(* regtest.py: GameStateRemGlk, the display-state reconstructor.           *)
(***************************************************************************)

\* GameState.__init__ followed by GameStateRemGlk.initialize.
GameStateInit ==
    [ generation |-> 0,
      windows |-> << >>,
      statuslinestarts |-> << >>,
      statuswin |-> << >>,
      statuswindat |-> << >>,
      storywin |-> << >>,
      storywindat |-> << >>,
      graphicswin |-> << >>,
      graphicswindat |-> << >>,
      lineinputwin |-> None,
      charinputwin |-> None,
      hyperlinkinputwin |-> None,
      mouseinputwin |-> None,
      specialinput |-> "None",
      err |-> "" ]

\* GameStateRemGlk.extract_text: the text of a line object, styles ignored.
\* A content element is a dict span (dict = TRUE) or a legacy scalar; a
\* scalar is followed by the scalar holding its text.
RECURSIVE ExtractTextFrom(_, _)
ExtractTextFrom(con, i) ==
    IF i > Len(con) THEN << >>
    ELSE IF con[i].dict
         THEN con[i].text \o ExtractTextFrom(con, i + 1)
         ELSE IF i + 1 > Len(con) THEN << >>
              ELSE con[i + 1].text \o ExtractTextFrom(con, i + 2)

extract_text(line) == ExtractTextFrom(line.content, 1)

\* GameStateRemGlk.extract_raw: the content array of a line object.
extract_raw(line) == line.content

\* self.windows is a dict keyed by id that keeps insertion order: it is the
\* sequence of its values.
WinLookup(ws, id) == { i \in 1 .. Len(ws) : ws[i].id = id }
HasWin(ws, id) == WinLookup(ws, id) # {}
GetWin(ws, id) == ws[CHOOSE i \in WinLookup(ws, id) : TRUE]
WinIdSet(ws) == { ws[i].id : i \in 1 .. Len(ws) }

\* self.windows[id] = win
DictPut(ws, win) ==
    IF HasWin(ws, win.id)
    THEN [ i \in 1 .. Len(ws) |-> IF ws[i].id = win.id THEN win ELSE ws[i] ]
    ELSE Append(ws, win)

RECURSIVE DictFromList(_, _)
DictFromList(ws, list) ==
    IF list = << >> THEN ws
    ELSE DictFromList(DictPut(ws, Head(list)), Tail(list))

\* The loop that fills statuslinestarts; the result is the pair of the map
\* (a sequence of <<id, start>> in insertion order) and totalheight.
RECURSIVE LineStarts(_, _, _)
LineStarts(grids, total, acc) ==
    IF grids = << >> THEN [ starts |-> acc, total |-> total ]
    ELSE LineStarts(Tail(grids), total + Head(grids).gridheight,
                    Append(acc, << Head(grids).id, total >>))

StartOf(starts, id) ==
    (CHOOSE p \in { starts[i] : i \in 1 .. Len(starts) } : p[1] = id)[2]

RECURSIVE PadTo(_, _, _)
PadTo(ls, n, fill) ==
    IF Len(ls) >= n THEN ls ELSE PadTo(Append(ls, fill), n, fill)

\* The windows branch of parse_remglk_update.
ApplyWindows(st, windows) ==
    LET ws == DictFromList(<< >>, windows)
        grids == SelectSeq(ws, LAMBDA w : w.type = "grid")
        ls == LineStarts(grids, 0, << >>)
        cut(l) == IF ls.total < Len(l) THEN SubSeq(l, 1, ls.total) ELSE l
    IN  [ st EXCEPT !.windows = ws,
                    !.statuslinestarts = ls.starts,
                    !.statuswin = PadTo(cut(st.statuswin), ls.total, << >>),
                    !.statuswindat = PadTo(cut(st.statuswindat), ls.total, << >>) ]

\* The loop over the text of a buffer content entry.
RECURSIVE ApplyBufferText(_, _)
ApplyBufferText(st, text) ==
    IF text = << >> THEN st
    ELSE LET line == Head(text)
             dat == extract_text(line)
             raw == extract_raw(line)
             sw == IF line.append /\ Len(st.storywin) > 0
                   THEN [ st.storywin EXCEPT ![Len(st.storywin)] = @ \o dat ]
                   ELSE Append(st.storywin, dat)
             sd == IF line.append /\ Len(st.storywindat) > 0
                   THEN [ st.storywindat EXCEPT ![Len(st.storywindat)] = Append(@, raw) ]
                   ELSE Append(st.storywindat, << raw >>)
         IN  ApplyBufferText([ st EXCEPT !.storywin = sw, !.storywindat = sd ],
                             Tail(text))

\* The loop over the lines of a grid content entry.
RECURSIVE ApplyGridLines(_, _, _)
ApplyGridLines(st, id, lines) ==
    IF lines = << >> THEN st
    ELSE LET line == Head(lines)
             linenum == StartOf(st.statuslinestarts, id) + line.line
             sw == IF linenum >= 0 /\ linenum < Len(st.statuswin)
                   THEN [ st.statuswin EXCEPT ![linenum + 1] = extract_text(line) ]
                   ELSE st.statuswin
             sd == IF linenum >= 0 /\ linenum < Len(st.statuswindat)
                   THEN [ st.statuswindat EXCEPT ![linenum + 1] = Append(@, extract_raw(line)) ]
                   ELSE st.statuswindat
         IN  ApplyGridLines([ st EXCEPT !.statuswin = sw, !.statuswindat = sd ],
                            id, Tail(lines))

\* One iteration of the content loop of parse_remglk_update.
ApplyOneContent(st, content) ==
    IF ~HasWin(st.windows, content.id)
    THEN [ st EXCEPT !.err = "No such window" ]
    ELSE LET win == GetWin(st.windows, content.id)
         IN  CASE win.type = "buffer" ->
                    ApplyBufferText([ st EXCEPT !.storywin = << >>,
                                                !.storywindat = << >> ],
                                    content.text)
               [] win.type = "grid" ->
                    ApplyGridLines(st, content.id, content.lines)
               [] win.type = "graphics" ->
                    [ st EXCEPT !.graphicswin = << >>,
                                !.graphicswindat =
                                    IF content.draw # << >>
                                    THEN << << content.draw >> >> ELSE << >> ]
               [] OTHER -> st

RECURSIVE ApplyContents(_, _)
ApplyContents(st, contents) ==
    IF contents = << >> \/ st.err # "" THEN st
    ELSE ApplyContents(ApplyOneContent(st, Head(contents)), Tail(contents))

\* One iteration of the input loop of parse_remglk_update.
ApplyOneInput(st, input) ==
    IF input.type = "line" /\ Truthy(st.lineinputwin)
    THEN [ st EXCEPT !.err = "Multiple windows accepting line input" ]
    ELSE LET s1 == IF input.type = "line"
                   THEN [ st EXCEPT !.lineinputwin = input.id ] ELSE st
         IN  IF input.type = "char" /\ Truthy(s1.charinputwin)
             THEN [ s1 EXCEPT !.err = "Multiple windows accepting char input" ]
             ELSE LET s2 == IF input.type = "char"
                            THEN [ s1 EXCEPT !.charinputwin = input.id ] ELSE s1
                      s3 == IF input.hyperlink
                            THEN [ s2 EXCEPT !.hyperlinkinputwin = input.id ] ELSE s2
                  IN  IF input.mouse
                      THEN [ s3 EXCEPT !.mouseinputwin = input.id ] ELSE s3

RECURSIVE ApplyInputs(_, _)
ApplyInputs(st, inputs) ==
    IF inputs = << >> \/ st.err # "" THEN st
    ELSE ApplyInputs(ApplyOneInput(st, Head(inputs)), Tail(inputs))

ClearFoci(st) ==
    [ st EXCEPT !.lineinputwin = None, !.charinputwin = None,
                !.hyperlinkinputwin = None, !.mouseinputwin = None ]

\* A reconstructor that keeps the larger generation instead of the update's.
AssignGeneration_KeepLarger(st, update) ==
    [ st EXCEPT !.generation = IF update.gen > @ THEN update.gen ELSE @ ]

\* The generation assignment that opens parse_remglk_update.
AssignGeneration(st, update) == [ st EXCEPT !.generation = update.gen ]

\* GameStateRemGlk.parse_remglk_update.  An exception leaves the fields
\* assigned before it was raised and sets err.
parse_remglk_update(st, update) ==
    LET s1 == AssignGeneration(st, update)
        s2 == IF IsSome(update.windows)
              THEN ApplyWindows(s1, update.windows[1]) ELSE s1
        s3 == IF IsSome(update.content)
              THEN ApplyContents(s2, update.content[1]) ELSE s2
    IN  IF s3.err # "" THEN s3
        ELSE IF IsSome(update.specialinput)
             THEN [ ClearFoci(s3) EXCEPT !.specialinput = update.specialinput[1] ]
             ELSE IF IsSome(update.input)
                  THEN ApplyInputs([ ClearFoci(s3) EXCEPT !.specialinput = "None" ],
                                   update.input[1])
                  ELSE s3


(***************************************************************************)
(* Commands and outbound messages.                                         *)
(***************************************************************************)
CmdTypes == { "line", "char", "hyperlink", "mouse", "timer", "arrange",
              "refresh", "fileref_prompt", "debug" }

NoMsg == [ type |-> "none", gen |-> None, window |-> None ]
Built(m) == [ err |-> "", msg |-> m ]
Raised(e) == [ err |-> e, msg |-> NoMsg ]

\* The window named by a line message.
LineWindow(st) == st.lineinputwin

\* A refresh message that carries the current generation.
RefreshGen_Current(st) == st.generation

\* "update = { 'type':'refresh', 'gen':0 }"
RefreshGen(st) == 0

\* The message GameStateRemGlk.initialize writes.
InitMessage == [ type |-> "init", gen |-> 0, window |-> None ]

\* GameStateRemGlk.construct_remglk_input: the message for a command, or the
\* exception it raises.
construct_remglk_input(st, type) ==
    CASE type = "line" ->
            IF ~Truthy(st.lineinputwin)
            THEN Raised("Game is not expecting line input")
            ELSE Built([ type |-> "line", gen |-> st.generation,
                         window |-> LineWindow(st) ])
      [] type = "char" ->
            IF ~Truthy(st.charinputwin)
            THEN Raised("Game is not expecting char input")
            ELSE Built([ type |-> "char", gen |-> st.generation,
                         window |-> st.charinputwin ])
      [] type = "hyperlink" ->
            IF ~Truthy(st.hyperlinkinputwin)
            THEN Raised("Game is not expecting hyperlink input")
            ELSE Built([ type |-> "hyperlink", gen |-> st.generation,
                         window |-> st.hyperlinkinputwin ])
      [] type = "mouse" ->
            IF ~Truthy(st.mouseinputwin)
            THEN Raised("Game is not expecting mouse input")
            ELSE Built([ type |-> "mouse", gen |-> st.generation,
                         window |-> st.mouseinputwin ])
      [] type = "timer" ->
            Built([ type |-> "timer", gen |-> st.generation, window |-> None ])
      [] type = "arrange" ->
            Built([ type |-> "arrange", gen |-> st.generation, window |-> None ])
      [] type = "refresh" ->
            Built([ type |-> "refresh", gen |-> RefreshGen(st), window |-> None ])
      [] type = "fileref_prompt" ->
            IF st.specialinput # "fileref_prompt"
            THEN Raised("Game is not expecting a fileref_prompt")
            ELSE Built([ type |-> "specialresponse", gen |-> st.generation,
                         window |-> None ])
      [] type = "debug" ->
            Built([ type |-> "debuginput", gen |-> st.generation, window |-> None ])
      [] OTHER ->
            Raised("Rem mode does not recognize command type")

(***************************************************************************)
(* The updates an interpreter may send.                                    *)
(***************************************************************************)
WinType(id) ==
    CASE id = 2 -> "grid"
      [] id = 3 -> "graphics"
      [] OTHER -> "buffer"

WinDesc(id) == [ id |-> id, type |-> WinType(id), gridheight |-> 1 ]

RECURSIVE AscendingSeq(_)
AscendingSeq(S) ==
    IF S = {} THEN << >>
    ELSE LET m == CHOOSE x \in S : \A y \in S : x <= y
         IN  << m >> \o AscendingSeq(S \ {m})

WindowLists == { [ i \in 1 .. Len(AscendingSeq(S)) |-> WinDesc(AscendingSeq(S)[i]) ] :
                 S \in SUBSET WinIds }

Span(ch) == [ dict |-> TRUE, text |-> << ch >> ]

ContentEntry(id, ch) ==
    [ id |-> id,
      text |-> << [ append |-> FALSE, content |-> << Span(ch) >> ] >>,
      lines |-> << [ line |-> 0, content |-> << Span(ch) >> ] >>,
      draw |-> << >> ]

InputKinds == { << "line", FALSE, FALSE >>, << "char", FALSE, FALSE >>,
                << "None", TRUE, TRUE >> }

InputDesc(id, k) == [ id |-> id, type |-> k[1], hyperlink |-> k[2], mouse |-> k[3] ]

NoSections == [ windows |-> Absent, content |-> Absent, input |-> Absent,
                specialinput |-> Absent ]

\* The sections one update may carry.  parse_remglk_update handles the
\* sections one after the other (windows, content, then specialinput or
\* input) and an absent section changes nothing, so an update with several
\* sections acts as the updates with one section each, applied in that order.
UpdateSections ==
    {NoSections}
      \cup { [ NoSections EXCEPT !.windows = Some(l) ] : l \in WindowLists }
      \cup { [ NoSections EXCEPT !.content = Some(<< ContentEntry(id, "a") >>) ] : id \in WinIds }
      \cup { [ NoSections EXCEPT !.input = Some(<< >>) ] }
      \cup { [ NoSections EXCEPT !.input = Some(<< InputDesc(id, k) >>) ] :
                id \in WinIds, k \in InputKinds }
      \cup { [ NoSections EXCEPT !.specialinput = Some("fileref_prompt") ] }

WithGen(sec, g) ==
    [ gen |-> g, windows |-> sec.windows, content |-> sec.content,
      input |-> sec.input, specialinput |-> sec.specialinput ]

RemUpdates == { WithGen(sec, g) : sec \in UpdateSections, g \in GenVals }

(***************************************************************************)
(* regtest.py: the check engine.                                           *)
(***************************************************************************)
\* What subeval and eval return: None, or a failure string (with the number
\* a LiteralCount failure reports).
ResNone == [ none |-> TRUE, msg |-> "", n |-> 0 ]
ResFail(m, k) == [ none |-> FALSE, msg |-> m, n |-> k ]

\* Python truthiness of such a result, as "if (res):" and "if res:" test it.
ResTruthy(res) == ~res.none /\ res.msg # ""

\* LiteralCheck.subeval
LiteralCheck_subeval(ln, lines) ==
    IF \E i \in 1 .. Len(lines) : StrIn(ln, lines[i])
    THEN ResNone ELSE ResFail("not found", 0)

\* The positions at which ln.find(needle, start) finds the needle in turn:
\* every position, since start advances by one.
Occurrences(needle, line) ==
    Cardinality({ i \in 0 .. Len(line) :
                    /\ i + Len(needle) <= Len(line)
                    /\ SubSeq(line, i + 1, i + Len(needle)) = needle })

RECURSIVE CountFrom(_, _, _, _)
\* The loop of LiteralCountCheck.subeval over the lines from index i on,
\* counter holding the hits so far; it returns as soon as a hit brings the
\* counter to count.
CountFrom(needle, count, lines, counter) ==
    IF lines = << >> THEN
        IF counter = 0 THEN ResFail("not found", 0)
        ELSE ResFail("only found %d times", counter)
    ELSE LET k == Occurrences(needle, Head(lines))
         IN  IF k > 0 /\ counter + k >= count THEN ResNone
             ELSE CountFrom(needle, count, Tail(lines), counter + k)

\* LiteralCountCheck.subeval
LiteralCountCheck_subeval(ln, count, lines) == CountFrom(ln, count, lines, 0)

\* Check.subeval of the class of the check.
subeval(check, lines) ==
    CASE check.kind = "literal" -> LiteralCheck_subeval(check.ln, lines)
      [] check.kind = "count" -> LiteralCountCheck_subeval(check.ln, check.count, lines)
      [] OTHER -> ResFail("not implemented", 0)

\* An eval that returns the predicate's result also when inverse is set.
Check_eval_NoInvert(check, st) ==
    subeval(check, IF check.instatus THEN st.statuswin
                   ELSE IF check.ingraphics THEN st.graphicswin
                   ELSE st.storywin)

\* Check.eval (for the checks that read the plain-text projections).
Check_eval(check, st) ==
    LET lines == IF check.instatus THEN st.statuswin
                 ELSE IF check.ingraphics THEN st.graphicswin
                 ELSE st.storywin
        res == subeval(check, lines)
    IN  IF ~check.inverse THEN res
        ELSE IF ResTruthy(res) THEN ResNone
             ELSE ResFail("inverse test should fail", 0)

\* Every check is vital.
CheckVital_Always(ownvital, optsvital) == TRUE

\* Check.__init__: self.vital = args.get('vital', False) or opts.vital
CheckVital(ownvital, optsvital) == ownvital \/ optsvital # 0

\* The checks a test file may attach to a command.
Checks ==
    [ kind : {"literal", "count"}, ln : { << c >> : c \in Chars }, count : {2},
      inverse : BOOLEAN, instatus : BOOLEAN, ingraphics : {FALSE},
      vital : BOOLEAN ]

(***************************************************************************)
(* regtest.py: the test file, include expansion.                           *)
(***************************************************************************)
Command(type, cmd) == [ type |-> type, cmd |-> cmd ]

\* The tests of the test file, in file order.
testls ==
    << [ name |-> "one", cmds |-> << Command("line", "look"), Command("include", "two") >> ],
       [ name |-> "two", cmds |-> << Command("char", "x") >> ],
       [ name |-> "three", cmds |-> << Command("timer", ""), Command("include", "none") >> ],
       [ name |-> "four", cmds |-> << Command("include", "four") >> ],
       [ name |-> "five", cmds |-> << >> ] >>

testmap ==
    [ n \in { testls[i].name : i \in 1 .. Len(testls) } |->
        testls[CHOOSE i \in 1 .. Len(testls) : testls[i].name = n] ]

precommands == << >>

\* A list_commands that passes over an include of a test already on the
\* stack instead of raising.
OnCycle_Skip(res) == [ err |-> "", res |-> res ]

\* "raise Exception('Included test includes itself: ...')"
OnCycle(res) == [ err |-> "Included test includes itself", res |-> res ]

\* A list_commands that puts each command in front of the result.
AddCommand_Front(res, cmd) == << cmd >> \o res

\* res.append(cmd)
AddCommand(res, cmd) == Append(res, cmd)

\* The pre-init command parse_tests gives every test, Command('(init)').
PreCmd == Command("line", "(init)")

\* A list_commands that splices the pre-init command of the included test
\* in front of its commands.
SplicedFrom_WithPrecmd(test) == << PreCmd >> \o test.cmds

\* "list_commands(test.cmds, res, nested+(cmd.cmd,))": of the included test
\* only the commands are read.
SplicedFrom(test) == test.cmds

RECURSIVE list_commands_map(_, _, _, _)
\* list_commands(ls, res, nested) with tm the global testmap; err is the
\* exception raised, if any.
list_commands_map(tm, ls, res, nested) ==
    IF ls = << >> THEN [ err |-> "", res |-> res ]
    ELSE LET cmd == Head(ls)
         IN  IF cmd.type = "include"
             THEN IF cmd.cmd \in nested
                  THEN OnCycle(res)
                  ELSE IF cmd.cmd \notin DOMAIN tm
                       THEN [ err |-> "Included test not found", res |-> res ]
                       ELSE LET sub == list_commands_map(tm, SplicedFrom(tm[cmd.cmd]), res,
                                                         nested \cup {cmd.cmd})
                            IN  IF sub.err # "" THEN sub
                                ELSE list_commands_map(tm, Tail(ls), sub.res, nested)
             ELSE list_commands_map(tm, Tail(ls), AddCommand(res, cmd), nested)

\* list_commands(ls, res, nested) on the test file of the driver.
list_commands_rec(ls, res, nested) == list_commands_map(testmap, ls, res, nested)

list_commands(ls) == list_commands_rec(ls, << >>, {})

(***************************************************************************)
(* regtest.py: what reading the interpreter's answer can give.             *)
(***************************************************************************)
\* The updates the interpreter sends to the driver: any of a windows list,
\* buffer content and an input request, for one buffer window.
DriverUpdates ==
    [ gen : 1 .. MaxGen,
      windows : {Absent, Some(<< WinDesc(1) >>)},
      content : {Absent} \cup { Some(<< ContentEntry(1, ch) >>) : ch \in Chars },
      input : {Absent, Some(<< InputDesc(1, << "line", FALSE, FALSE >>) >>),
               Some(<< InputDesc(1, << "char", FALSE, FALSE >>) >>)},
      specialinput : {Absent} ]

RECURSIVE SplitLines(_, _)
\* dat.split('\n'), cur holding the piece being read.
SplitLines(dat, cur) ==
    IF dat = << >> THEN << cur >>
    ELSE IF Head(dat) = "\n" THEN << cur >> \o SplitLines(Tail(dat), << >>)
         ELSE SplitLines(Tail(dat), Append(cur, Head(dat)))

\* The outputs a dumb-terminal interpreter prints for one command.
CheapOutputs == { << >> } \cup { << ch, ch, "\n", ">" >> : ch \in Chars }

\* What the read of one answer meets: a complete update, the output of a
\* dumb terminal, or no answer before the deadline, text that does not start
\* with an open brace, or text that is no JSON when the stream ends.
ReadEvents(format) ==
    { [ kind |-> "timeout" ] }
      \cup (IF format = "cheap"
            THEN { [ kind |-> "text", dat |-> d ] : d \in CheapOutputs }
            ELSE { [ kind |-> "notjson" ], [ kind |-> "badjson" ] }
                   \cup { [ kind |-> "update", update |-> u ] : u \in DriverUpdates })

RECURSIVE Paragraphs(_, _)
\* The story lines of one buffer content entry, after the lines acc: a text
\* entry with append continues the last line, any other starts a line.
Paragraphs(text, acc) ==
    IF text = << >> THEN acc
    ELSE LET line == Head(text)
             dat == extract_text(line)
         IN  Paragraphs(Tail(text),
                        IF line.append /\ acc # << >>
                        THEN [ acc EXCEPT ![Len(acc)] = @ \o dat ]
                        ELSE Append(acc, dat))

RECURSIVE ProducedBy(_, _, _)
\* The story lines of the buffer windows (of the window set ws) in the
\* content list of one update.
ProducedBy(ws, contents, acc) ==
    IF contents = << >> THEN acc
    ELSE LET c == Head(contents)
         IN  ProducedBy(ws, Tail(contents),
                        IF HasWin(ws, c.id) /\ GetWin(ws, c.id).type = "buffer"
                        THEN Paragraphs(c.text, acc) ELSE acc)

\* The story lines the interpreter produced in one answer: the lines of a
\* dumb terminal's output, or those of the buffer content of an update.
StoryLinesOf(ws, ev) ==
    CASE ev.kind = "text" -> SplitLines(ev.dat, << >>)
      [] ev.kind = "update" ->
            IF IsSome(ev.update.content)
            THEN ProducedBy(ws, ev.update.content[1], << >>) ELSE << >>
      [] OTHER -> << >>

\* An accept_output that returns without an update when the deadline passes.
accept_output_IgnoreTimeout(format, st, ev) ==
    CASE ev.kind = "timeout" -> [ exc |-> "", gs |-> st, parsed |-> 0 ]
      [] ev.kind = "notjson" -> [ exc |-> "NotJSONException", gs |-> st, parsed |-> 0 ]
      [] ev.kind = "badjson" -> [ exc |-> "Exception", gs |-> st, parsed |-> 0 ]
      [] ev.kind = "text" ->
            [ exc |-> "", gs |-> [ st EXCEPT !.storywin = SplitLines(ev.dat, << >>) ],
              parsed |-> 1 ]
      [] ev.kind = "update" ->
            LET s == parse_remglk_update(st, ev.update)
            IN  [ exc |-> IF s.err # "" THEN "Exception" ELSE "",
                  gs |-> s, parsed |-> IF s.err # "" THEN 0 ELSE 1 ]

\* accept_output of GameStateCheap, GameStateRemGlk and GameStateRemGlkSingle:
\* the exception raised (or ""), the new state, and whether an answer was
\* parsed.
accept_output(format, st, ev) ==
    CASE ev.kind = "timeout" ->
            [ exc |-> "Exception",
              gs |-> IF format = "cheap" THEN [ st EXCEPT !.storywin = << >> ] ELSE st,
              parsed |-> 0 ]
      [] ev.kind = "notjson" -> [ exc |-> "NotJSONException", gs |-> st, parsed |-> 0 ]
      [] ev.kind = "badjson" -> [ exc |-> "Exception", gs |-> st, parsed |-> 0 ]
      [] ev.kind = "text" ->
            [ exc |-> "", gs |-> [ st EXCEPT !.storywin = SplitLines(ev.dat, << >>) ],
              parsed |-> 1 ]
      [] ev.kind = "update" ->
            LET s == parse_remglk_update(st, ev.update)
            IN  [ exc |-> IF s.err # "" THEN "Exception" ELSE "",
                  gs |-> s, parsed |-> IF s.err # "" THEN 0 ELSE 1 ]

\* A GameStateCheap.perform_input that writes a command of any type.
perform_input_CheapAnyType(format, st, cmd) ==
    IF format = "cheap"
    THEN Built([ type |-> cmd.type, gen |-> None, window |-> None ])
    ELSE construct_remglk_input(st, cmd.type)

\* perform_input of the three GameState classes up to the write: the message
\* or the exception.
perform_input(format, st, cmd) ==
    IF format = "cheap"
    THEN IF cmd.type # "line"
         THEN Raised("Cheap mode only supports line input")
         ELSE Built([ type |-> "line", gen |-> None, window |-> None ])
    ELSE construct_remglk_input(st, cmd.type)

\* What the except clauses of run() add to totalerrors.
HandlerErrors(exc) == IF exc = "VitalCheckException" THEN 0 ELSE 1

\* A driver that stops the whole run after a failure under a single --vital.
AbortsRun_OnSingleVital(errors, optsvital) == errors # 0 /\ optsvital >= 1

\* The main loop's test after run(): "if totalerrors and opts.vital >= 2: break"
AbortsRun(errors, optsvital) == errors # 0 /\ optsvital >= 2

(***************************************************************************)
(* ifomatic.py: GameStateRemGlk, the reconstructor of the screenshot tool. *)
(***************************************************************************)
\* win.input of a window that awaits no input.
NoInput == [ type |-> "None", gen |-> None ]

\* GlkWindow.__init__.  gridlines and buflines are lists only for the
\* windows of their type; gridheight is None for the windows that are no
\* grid.
GlkWindow(id, type) ==
    [ id |-> id, type |-> type,
      gridheight |-> IF type = "grid" THEN 0 ELSE None,
      gridlines |-> << >>,
      buflines |-> << >>,
      input |-> NoInput,
      reqhyperlink |-> FALSE,
      reqmouse |-> FALSE ]

\* GlkBufferLine: the elements of a paragraph and its flowbreak flag.
GlkBufferLine == [ ls |-> << >>, flowbreak |-> FALSE ]

\* GameStateRemGlk.initialize of ifomatic.py.
IfoStateInit == [ generation |-> 0, windowdic |-> << >>, err |-> "" ]

\* A key of the hasinput dictionary: a window id, or a string that is none.
IdKey(id) == [ isid |-> TRUE, id |-> id ]
StringKey == [ isid |-> FALSE, id |-> None ]

\* hasinput.get(key) over the input list arg: the entries with a type are
\* stored under their ids, a later entry replacing an earlier one; the
\* result is the index of the entry in arg, or 0 for None.
HasInputGet(arg, key) ==
    LET S == { i \in 1 .. Len(arg) :
                 key.isid /\ arg[i].type # "None" /\ arg[i].id = key.id }
    IN  IF S = {} THEN 0 ELSE CHOOSE i \in S : \A j \in S : j <= i

\* The key accept_inputcancel looks up, hasinput.get('winid'): the string.
CancelKey(winid) == StringKey

\* GameStateRemGlk.accept_inputcancel for an input list arg.
accept_inputcancel(dic, arg) ==
    [ k \in 1 .. Len(dic) |->
        LET win == dic[k]
            argi == HasInputGet(arg, CancelKey(win.id))
        IN  IF win.input # NoInput /\ (argi = 0 \/ arg[argi].gen > win.input.gen)
            THEN [ win EXCEPT !.input = NoInput ]
            ELSE win ]

\* GameStateRemGlk.accept_inputset for an input list arg.
accept_inputset(dic, arg) ==
    [ k \in 1 .. Len(dic) |->
        LET win == dic[k]
            argi == HasInputGet(arg, IdKey(win.id))
            w1 == [ win EXCEPT
                      !.reqhyperlink = \E i \in 1 .. Len(arg) :
                                          arg[i].id = win.id /\ arg[i].hyperlink,
                      !.reqmouse = \E i \in 1 .. Len(arg) :
                                      arg[i].id = win.id /\ arg[i].mouse ]
        IN  IF argi = 0 THEN w1
            ELSE [ w1 EXCEPT !.input = [ type |-> arg[argi].type, gen |-> arg[argi].gen ] ] ]

\* A resize that keeps the lines the window has.
ResizeGrid_KeepLines(win, argheight) == [ win EXCEPT !.gridheight = argheight ]

\* The gridheight branch of accept_one_window.
ResizeGrid(win, argheight) ==
    [ win EXCEPT
        !.gridlines = IF argheight > win.gridheight
                      THEN PadTo(win.gridlines,
                                 Len(win.gridlines) + (argheight - win.gridheight), << >>)
                      ELSE IF argheight < win.gridheight
                           THEN SubSeq(win.gridlines, 1,
                                       IF argheight < Len(win.gridlines)
                                       THEN argheight ELSE Len(win.gridlines))
                           ELSE win.gridlines,
        !.gridheight = argheight ]

\* GameStateRemGlk.accept_one_window: the window is created if it is new,
\* and a grid is given its number of lines.
accept_one_window(dic, arg) ==
    LET d1 == IF HasWin(dic, arg.id) THEN dic
              ELSE Append(dic, GlkWindow(arg.id, arg.type))
    IN  [ k \in 1 .. Len(d1) |->
            IF d1[k].id = arg.id /\ d1[k].type = "grid"
            THEN ResizeGrid(d1[k], arg.gridheight)
            ELSE d1[k] ]

RECURSIVE AcceptWindows(_, _)
AcceptWindows(dic, windows) ==
    IF windows = << >> THEN dic
    ELSE AcceptWindows(accept_one_window(dic, Head(windows)), Tail(windows))

\* The windows branch of accept_output: every listed window is accepted,
\* and the windows that were not listed (inplace still False) are deleted.
IfoApplyWindows(dic, windows) ==
    SelectSeq(AcceptWindows(dic, windows),
              LAMBDA w : \E i \in 1 .. Len(windows) : windows[i].id = w.id)

RECURSIVE SpanElements(_, _)
\* The elements a content array adds to a line: the text of each span (a
\* span that carries no special); a legacy scalar is followed by the scalar
\* holding its text.
SpanElements(con, i) ==
    IF i > Len(con) THEN << >>
    ELSE IF con[i].dict
         THEN << con[i].text >> \o SpanElements(con, i + 1)
         ELSE IF i + 1 > Len(con) THEN << >>
              ELSE << con[i + 1].text >> \o SpanElements(con, i + 2)

RECURSIVE IfoGridLines(_, _)
\* The loop over arg['lines'] of a grid content entry; win.gridlines[linenum]
\* raises IndexError for a line the grid does not have.
IfoGridLines(win, lines) ==
    IF lines = << >> THEN [ err |-> "", win |-> win ]
    ELSE LET linearg == Head(lines)
         IN  IF linearg.line >= Len(win.gridlines)
             THEN [ err |-> "IndexError", win |-> win ]
             ELSE IfoGridLines(
                      [ win EXCEPT !.gridlines[linearg.line + 1] =
                                        SpanElements(linearg.content, 1) ],
                      Tail(lines))

\* A paragraph entry with append and no content starts an empty paragraph.
SkipsEmptyAppend_Never(textarg) == FALSE

\* "if textarg.get('append'): if content is None or not len(content): continue"
SkipsEmptyAppend(textarg) == textarg.append /\ textarg.content = << >>

RECURSIVE IfoBufferText(_, _)
\* The loop over the text of a buffer content entry.  For an entry with
\* flowbreak the paragraph is chosen (and appended, if it is new) before the
\* assignment to divel, a name that is not defined, raises NameError.
IfoBufferText(win, text) ==
    IF text = << >> THEN [ err |-> "", win |-> win ]
    ELSE LET textarg == Head(text)
             extends == textarg.append /\ Len(win.buflines) > 0
             lines == IF extends THEN win.buflines
                      ELSE Append(win.buflines, GlkBufferLine)
             n == Len(lines)
         IN  IF SkipsEmptyAppend(textarg) THEN IfoBufferText(win, Tail(text))
             ELSE IF textarg.flowbreak
                  THEN [ err |-> "NameError", win |-> [ win EXCEPT !.buflines = lines ] ]
                  ELSE IfoBufferText(
                           [ win EXCEPT !.buflines =
                               [ lines EXCEPT ![n].ls = @ \o SpanElements(textarg.content, 1) ] ],
                           Tail(text))

\* "if win.input and win.input.type == 'line'"
AwaitingLine(win) == win.input # NoInput /\ win.input.type = "line"

\* GameStateRemGlk.accept_one_content.
accept_one_content(st, arg) ==
    IF ~HasWin(st.windowdic, arg.id)
    THEN [ st EXCEPT !.err = "No such window" ]
    ELSE LET k == CHOOSE i \in WinLookup(st.windowdic, arg.id) : TRUE
             win == st.windowdic[k]
         IN  IF AwaitingLine(win)
             THEN [ st EXCEPT !.err = "Window is awaiting line input." ]
             ELSE CASE win.type = "grid" ->
                        LET r == IfoGridLines(win, arg.lines)
                        IN  [ st EXCEPT !.windowdic[k] = r.win, !.err = r.err ]
                    [] win.type = "buffer" ->
                        LET w0 == IF arg.clear THEN [ win EXCEPT !.buflines = << >> ]
                                  ELSE win
                            r == IfoBufferText(w0, arg.text)
                        IN  [ st EXCEPT !.windowdic[k] = r.win, !.err = r.err ]
                    [] OTHER -> st

RECURSIVE IfoApplyContents(_, _)
IfoApplyContents(st, contents) ==
    IF contents = << >> \/ st.err # "" THEN st
    ELSE IfoApplyContents(accept_one_content(st, Head(contents)), Tail(contents))

\* GameStateRemGlk.accept_output of ifomatic.py from the decoded update on.
\* An exception leaves what was assigned before it and sets err.
Ifo_accept_update(st, update) ==
    LET s1 == [ st EXCEPT !.generation = update.gen ]
        s2 == IF IsSome(update.input)
              THEN [ s1 EXCEPT !.windowdic = accept_inputcancel(@, update.input[1]) ]
              ELSE s1
        s3 == IF IsSome(update.windows)
              THEN [ s2 EXCEPT !.windowdic = IfoApplyWindows(@, update.windows[1]) ]
              ELSE s2
        s4 == IF IsSome(update.content)
              THEN IfoApplyContents(s3, update.content[1]) ELSE s3
    IN  IF s4.err # "" THEN s4
        ELSE IF IsSome(update.input)
             THEN [ s4 EXCEPT !.windowdic = accept_inputset(@, update.input[1]) ]
             ELSE s4

(***************************************************************************)
(* The reconstructor on its own: any updates and any commands, in any      *)
(* order, within one session after another.                                *)
(***************************************************************************)
\* gs: the GameStateRemGlk object; out: the message construct_remglk_input
\* built last (or the exception it raised) and that no update has answered
\* yet.  History of the session: lastgen, the gen field of the update applied
\* last; prevgen, state.generation before that update; refreshed, a refresh
\* command was sent; winlistseen, an update carried a windows list;
\* nupdates, the number of updates applied; produced, the story lines the
\* interpreter sent in the answer whose checks run() is evaluating.
VARIABLES gs, out, lastgen, prevgen, refreshed, winlistseen, nupdates, produced

\* The driver (main loop and run()): terpformat and vital, the --format and
\* --vital options; testix, the index in testls of the test the main loop is
\* at; pc, the position in the script; cmdlist, the expanded commands of the
\* running test; cmdix, how many of them were taken up; nchecks and chkix,
\* the number of checks attached to the current command and how many were
\* evaluated; totalerrors; proc, the subprocess run() launched; written and
\* parsed, the messages written to and the answers parsed from the
\* interpreter in this test; lastcheck, the check evaluated last; exc, the
\* exception in flight; exitcode, the exit status of the script.
VARIABLES terpformat, vital, testix, pc, cmdlist, cmdix, nchecks, chkix,
          totalerrors, proc, written, parsed, lastcheck, exc, exitcode

\* The registry of check classes: checkclasses, the list addcheck walks;
\* checkfile_counter, the number of extension modules loaded; lastline and
\* builtby, the check line addcheck was given last and the class that built
\* its Check.
VARIABLES checkclasses, checkfile_counter, lastline, builtby

remvars == << gs, out, lastgen, prevgen, refreshed, winlistseen, nupdates, produced >>

\* Include expansion on its own: incmap, the testmap of a test file; incls,
\* the command list list_commands was called with; incres, what it returned
\* or raised; incagain, what it returned when called with its own result.
VARIABLES incmap, incls, incres, incagain

\* The two reconstructors side by side, regtest's (gs) and ifomatic's:
\* ifo, the GameStateRemGlk object of ifomatic.py; ifoupd, the update both
\* applied last; ifon, the number of updates applied; ifopending, the
\* windows that awaited line input before that update (in ifomatic's state
\* and in regtest's), those with a pending input of any type before it (had)
\* and those whose input accept_inputcancel left pending (kept).
VARIABLES ifo, ifoupd, ifon, ifopending

regvars == << checkclasses, checkfile_counter, lastline, builtby >>

ifovars == << ifo, ifoupd, ifon, ifopending >>

incvars == << incmap, incls, incres, incagain >>

\* The variables of the parts of the program that the reconstructor and the
\* driver do not touch.
\* The timed read: the clock, the time the read began, the bytes read, where
\* the read stands, whether it met the end of the stream, the reads begun.
VARIABLES rdnow, rdt0, rdbytes, rdpc, rdeof, rdreads

rdvars == << rdnow, rdt0, rdbytes, rdpc, rdeof, rdreads >>

\* The answer read byte by byte: the bytes read, where the read stands, the
\* lines the not-JSON error carries.
VARIABLES sdat, spc, sbad

strvars == << sdat, spc, sbad >>

\* Single-turn mode: the subprocesses spawned so far, and where run() stands.
VARIABLES sgprocs, sgpc

sglvars == << sgprocs, sgpc >>

\* The game file and the interpreter of a test: rsin, what the test file and
\* the command line give; rsglobal, the globals gamefile and terppath;
\* rstest, the fields of the RegTest; rsout, what run() uses; rspc, where
\* the script stands.
VARIABLES rsin, rsglobal, rstest, rsout, rspc

rsvars == << rsin, rsglobal, rstest, rsout, rspc >>

\* parse_tests: pfile, the lines of the test file; plinenum, the number of
\* lines read (the local linenum); pt, the list of tests built so far with
\* the locals curtest and curcmd and the exception raised, if any.
VARIABLES pfile, plinenum, pt

ptvars == << pfile, plinenum, pt >>

\* plotex.py, Graph.run: gactions, glimit and gstart, the actions, the limit
\* and the start states it is called with; gnodes, the states of the graph in
\* the order they were added, each with its ancestors (self.allstates and
\* self.states); gnew, the list newstates; gpc, where run() stands; giters,
\* the number of passes of its while loop.
VARIABLES gactions, glimit, gstart, gnodes, gnew, gpc, giters

gvars == << gactions, glimit, gstart, gnodes, gnew, gpc, giters >>

\* The variables of the parts modelled on their own further below, and for
\* each part the variables of the others.
morevars == << strvars, sglvars, rsvars, ptvars, gvars >>

strrest == << sglvars, rsvars, ptvars, gvars >>

sglrest == << strvars, rsvars, ptvars, gvars >>

rsrest == << strvars, sglvars, ptvars, gvars >>

ptrest == << strvars, sglvars, rsvars, gvars >>

grest == << strvars, sglvars, rsvars, ptvars >>

auxvars == << regvars, incvars, ifovars, rdvars, morevars >>

drivervars == << terpformat, vital, testix, pc, cmdlist, cmdix, nchecks, chkix,
                 totalerrors, proc, written, parsed, lastcheck, exc, exitcode >>

\* The variables of the parts modelled above the byte stream.
oldvars == << remvars, drivervars, regvars, incvars, ifovars, rdvars >>

vars == << remvars, drivervars, auxvars >>

\* lastcheck before any check of the test: evaluated is FALSE.  Of a check
\* evaluated: failed, whether eval returned a failure; own, its {vital}
\* modifier; vital, its vital attribute; inverse, its {invert} modifier.
NoCheck ==
    [ evaluated |-> FALSE, failed |-> FALSE, own |-> FALSE, vital |-> FALSE,
      inverse |-> FALSE ]

\* The built-in classes in the order of their registration.
BuiltinClasses ==
    << "RegExpCheck", "LiteralCountCheck", "HyperlinkSpanCheck", "ImageSpanCheck",
       "JSONSpanCheck", "LiteralCheck" >>

\* The registry once the built-in classes are appended, no module loaded.
RegStart ==
    /\ checkclasses = BuiltinClasses
    /\ checkfile_counter = 0
    /\ lastline = ""
    /\ builtby = ""

\* The names of the tests of the files include expansion is tried on.
IncNames == {"a", "b"}

\* list_commands not called yet.
NoRes == [ err |-> "none", res |-> << >> ]

\* No call of list_commands is under way.
IncIdle ==
    /\ incls = << >>
    /\ incres = NoRes
    /\ incagain = NoRes

IncStart ==
    /\ incmap = [ n \in IncNames |-> [ name |-> n, cmds |-> << >> ] ]
    /\ IncIdle

\* No update applied.
NoUpdate ==
    [ gen |-> 0, windows |-> Absent, content |-> Absent, input |-> Absent,
      specialinput |-> Absent ]

\* The windows of a window dictionary with a pending input of any type,
\* each with the gen of that input.
InputPending(dic) ==
    { << dic[k].id, dic[k].input.gen >> :
        k \in { i \in 1 .. Len(dic) : dic[i].input # NoInput } }

NonePending == [ ifo |-> {}, gs |-> None, had |-> {}, kept |-> {} ]

IfoStart ==
    /\ ifo = IfoStateInit
    /\ ifoupd = NoUpdate
    /\ ifon = 0
    /\ ifopending = NonePending

\* No read has begun.
RdStart ==
    /\ rdnow = 0 /\ rdt0 = 0 /\ rdbytes = 0
    /\ rdpc = "idle" /\ rdeof = FALSE /\ rdreads = 0

\* Nothing has been read.
StrStart == sdat = << >> /\ spc = "reading" /\ sbad = << >>

\* No subprocess has been spawned.
SglStart == sgprocs = << >> /\ sgpc = "initialize"

\* A value that is not given: None.
NotGiven == "None"

\* The globals and the fields before the test file is read.
RsStart ==
    /\ rsin = [ filegame |-> NotGiven, fileterp |-> NotGiven,
                optgame |-> NotGiven, optterp |-> NotGiven,
                testgame |-> NotGiven, testterp |-> NotGiven ]
    /\ rsglobal = [ gamefile |-> NotGiven, terppath |-> NotGiven ]
    /\ rstest = [ gamefile |-> NotGiven, terp |-> NotGiven ]
    /\ rsout = [ gamefile |-> NotGiven, terp |-> NotGiven ]
    /\ rspc = "start"

\* parse_tests before the first readline: testls is empty, curtest and
\* curcmd are None.
PtEmpty == [ tests |-> << >>, curtest |-> None, curcmd |-> None, err |-> "" ]

PtStart == pfile = << >> /\ plinenum = 0 /\ pt = PtEmpty

\* No graph has been made.
GStart ==
    /\ gactions = << >> /\ glimit = 0 /\ gstart = << >>
    /\ gnodes = << >> /\ gnew = << >> /\ gpc = "idle" /\ giters = 0

MoreStart == StrStart /\ SglStart /\ RsStart /\ PtStart /\ GStart

AuxStart == RegStart /\ IncStart /\ IfoStart /\ RdStart /\ MoreStart

\* The state of the script before the main loop.
DriverStart ==
    /\ testix = 1
    /\ pc = "main"
    /\ cmdlist = << >>
    /\ cmdix = 0
    /\ nchecks = 0
    /\ chkix = 0
    /\ totalerrors = 0
    /\ proc = "none"
    /\ written = 0
    /\ parsed = 0
    /\ lastcheck = NoCheck
    /\ exc = ""
    /\ exitcode = None

RemStart ==
    /\ gs = GameStateInit
    /\ out = Built(NoMsg)
    /\ lastgen = Absent
    /\ prevgen = 0
    /\ refreshed = FALSE
    /\ winlistseen = FALSE
    /\ nupdates = 0
    /\ produced = << >>

RemInit ==
    /\ RemStart
    /\ DriverStart
    /\ AuxStart
    /\ terpformat = "rem"
    /\ vital = 0

\* accept_output's call of parse_remglk_update on a decoded update; the
\* message it answers is no longer in flight.
RemAcceptUpdate ==
    /\ gs.err = "" /\ out.err = ""
    /\ nupdates < MaxUpdates
    /\ \E u \in RemUpdates :
        /\ gs' = parse_remglk_update(gs, u)
        /\ lastgen' = Some(u.gen)
        /\ winlistseen' = (winlistseen \/ IsSome(u.windows))
    /\ prevgen' = gs.generation
    /\ nupdates' = nupdates + 1
    /\ out' = Built(NoMsg)
    /\ UNCHANGED << refreshed, produced, drivervars >>
    /\ UNCHANGED auxvars

\* perform_input up to the write of the message.
RemPerformInput ==
    /\ gs.err = "" /\ out.err = ""
    /\ \E type \in CmdTypes :
        /\ out' = construct_remglk_input(gs, type)
        /\ refreshed' = (refreshed \/ type = "refresh")
    /\ UNCHANGED << gs, lastgen, prevgen, winlistseen, nupdates, produced, drivervars >>
    /\ UNCHANGED auxvars

\* The next test: a new GameStateRemGlk, initialized.
RemNewSession ==
    /\ gs.err # "" \/ out.err # "" \/ lastgen # Absent
    /\ gs' = GameStateInit
    /\ out' = Built(NoMsg)
    /\ lastgen' = Absent
    /\ prevgen' = 0
    /\ refreshed' = FALSE
    /\ winlistseen' = FALSE
    /\ nupdates' = 0
    /\ UNCHANGED << produced, drivervars >>
    /\ UNCHANGED auxvars

RemNext == RemAcceptUpdate \/ RemPerformInput \/ RemNewSession

SpecRem == RemInit /\ [][RemNext]_vars

(***************************************************************************)
(* The driver: the main loop over the tests, run(), and the exit.          *)
(***************************************************************************)
Formats == {"cheap", "rem", "remsingle", "glk"}

\* --vital counts its occurrences: absent, once, twice.
VitalCounts == {0, 1, 2}

Init ==
    /\ RemStart
    /\ DriverStart
    /\ AuxStart
    /\ terpformat \in Formats
    /\ vital \in VitalCounts

sessvars == << lastgen, prevgen, refreshed, winlistseen, nupdates >>

histvars == << sessvars, produced >>

\* An exception no except clause of run() covers: the traceback ends the
\* script with status 1.
Crash ==
    /\ pc' = "done"
    /\ exc' = "Exception"
    /\ exitcode' = 1
    /\ UNCHANGED << testix, totalerrors >>

\* An exception raised inside the try block of run(): the except clauses
\* count it and control goes on to the lines after them.
Caught(e) ==
    /\ pc' = "teardown"
    /\ exc' = e
    /\ totalerrors' = totalerrors + HandlerErrors(e)
    /\ UNCHANGED << testix, exitcode >>

\* A run() that goes on with the GameState object of the test before.
FreshGameState_Reused(old) == old

\* run() makes a new GameState object for every test ("gamestate =
\* GameStateRemGlk(proc.stdin, proc.stdout)"), and initialize() sets its
\* generation, windows and input foci; nothing of the old object is read.
FreshGameState(old) == GameStateInit

\* The main loop passes a test its patterns do not select.
MainSkip ==
    /\ pc = "main" /\ testix <= Len(testls)
    /\ testix' = testix + 1
    /\ UNCHANGED << remvars, terpformat, vital, pc, cmdlist, cmdix, nchecks, chkix,
                    totalerrors, proc, written, parsed, lastcheck, exc, exitcode >>
    /\ UNCHANGED auxvars

\* run(test) down to the try statement: the subprocess is launched, the
\* GameState object made, the includes expanded.
RunLaunch ==
    /\ pc = "main" /\ testix <= Len(testls)
    /\ \E launched \in BOOLEAN :
        LET expanded == list_commands(precommands \o testls[testix].cmds)
        IN  /\ cmdix' = 0 /\ nchecks' = 0 /\ chkix' = 0
            /\ written' = 0 /\ parsed' = 0
            /\ lastcheck' = NoCheck
            /\ gs' = FreshGameState(gs) /\ out' = Built(NoMsg)
            /\ produced' = << >>
            /\ cmdlist' = expanded.res
            /\ IF terpformat # "remsingle" /\ ~launched
               THEN proc' = "none" /\ Crash
               ELSE /\ proc' = IF terpformat # "remsingle" THEN "running" ELSE "none"
                    /\ IF terpformat \notin {"cheap", "rem", "remsingle"} \/ expanded.err # ""
                       THEN Crash
                       ELSE /\ pc' = "initialize"
                            /\ UNCHANGED << testix, totalerrors, exc, exitcode >>
    /\ UNCHANGED << sessvars, terpformat, vital >>
    /\ UNCHANGED auxvars

\* gamestate.initialize(): whether the write (or, single-turn, the launch and
\* the exchange) went through.
RunInitialize ==
    /\ pc = "initialize"
    /\ \E ok \in BOOLEAN :
        IF terpformat = "cheap"
        THEN /\ pc' = "await"
             /\ UNCHANGED << written, testix, totalerrors, exc, exitcode >>
        ELSE IF ok
             THEN /\ written' = written + 1
                  /\ pc' = "await"
                  /\ UNCHANGED << testix, totalerrors, exc, exitcode >>
             ELSE /\ Caught("Exception")
                  /\ UNCHANGED written
    /\ UNCHANGED << remvars, terpformat, vital, cmdlist, cmdix, nchecks, chkix,
                    proc, parsed, lastcheck >>
    /\ UNCHANGED auxvars

\* gamestate.accept_output(), and the choice of the checks attached to the
\* command it answers.
RunAcceptOutput ==
    /\ pc = "await"
    /\ \E ev \in ReadEvents(terpformat), n \in 0 .. MaxChecks :
        LET r == accept_output(terpformat, gs, ev)
        IN  /\ gs' = r.gs
            /\ produced' = StoryLinesOf(r.gs.windows, ev)
            /\ parsed' = parsed + r.parsed
            /\ IF r.exc # ""
               THEN /\ Caught(r.exc)
                    /\ UNCHANGED << nchecks, chkix >>
               ELSE /\ pc' = "checks"
                    /\ nchecks' = n
                    /\ chkix' = 0
                    /\ UNCHANGED << testix, totalerrors, exc, exitcode >>
    /\ UNCHANGED << out, sessvars, terpformat, vital, cmdlist, cmdix, proc,
                    written, lastcheck >>
    /\ UNCHANGED auxvars

\* A check that lets the test go on whatever it found.
AfterCheck_NeverRaise(failed, isvital) == ""

\* "if (res): ... if check.vital: raise VitalCheckException()"
AfterCheck(failed, isvital) ==
    IF failed /\ isvital THEN "VitalCheckException" ELSE ""

\* One turn of "for check in cmd.checks" (or test.precmd.checks).
RunCheck ==
    /\ pc = "checks" /\ chkix < nchecks
    /\ \E check \in Checks :
        LET res == Check_eval(check, gs)
            failed == ResTruthy(res)
            isvital == CheckVital(check.vital, vital)
            raised == AfterCheck(failed, isvital)
        IN  /\ lastcheck' = [ evaluated |-> TRUE, failed |-> failed,
                              own |-> check.vital, vital |-> isvital,
                              inverse |-> check.inverse ]
            /\ IF raised # ""
               THEN /\ pc' = "teardown"
                    /\ exc' = raised
                    /\ totalerrors' = totalerrors + 1 + HandlerErrors(raised)
                    /\ UNCHANGED chkix
               ELSE /\ totalerrors' = totalerrors + (IF failed THEN 1 ELSE 0)
                    /\ chkix' = chkix + 1
                    /\ UNCHANGED << pc, exc >>
    /\ UNCHANGED << remvars, terpformat, vital, testix, cmdlist, cmdix, nchecks,
                    proc, written, parsed, exitcode >>
    /\ UNCHANGED auxvars

\* The checks of the command are through: the next command, or the end of
\* the try block.
ChecksDone ==
    /\ pc = "checks" /\ chkix = nchecks
    /\ pc' = IF cmdix < Len(cmdlist) THEN "command" ELSE "teardown"
    /\ produced' = << >>
    /\ UNCHANGED << gs, out, sessvars, terpformat, vital, testix, cmdlist, cmdix,
                    nchecks, chkix, totalerrors, proc, written, parsed, lastcheck,
                    exc, exitcode >>
    /\ UNCHANGED auxvars

\* gamestate.perform_input(cmd) for the next command of cmdlist.
RunPerformInput ==
    /\ pc = "command"
    /\ cmdix' = cmdix + 1
    /\ \E ok \in BOOLEAN :
        LET m == perform_input(terpformat, gs, cmdlist[cmdix + 1])
        IN  /\ out' = m
            /\ IF m.err # "" \/ ~ok
               THEN /\ Caught("Exception")
                    /\ UNCHANGED written
               ELSE /\ written' = written + 1
                    /\ pc' = "await"
                    /\ UNCHANGED << testix, totalerrors, exc, exitcode >>
    /\ UNCHANGED << gs, histvars, terpformat, vital, cmdlist, nchecks, chkix,
                    proc, parsed, lastcheck >>
    /\ UNCHANGED auxvars

\* The lines of run() after the except clauses, and the main loop's test
\* after run() returns.
RunTeardown ==
    /\ pc = "teardown"
    /\ proc' = IF proc = "running" THEN "killed" ELSE proc
    /\ exc' = ""
    /\ IF AbortsRun(totalerrors, vital)
       THEN pc' = "exit" /\ UNCHANGED testix
       ELSE pc' = "main" /\ testix' = testix + 1
    /\ UNCHANGED << remvars, terpformat, vital, cmdlist, cmdix, nchecks, chkix,
                    totalerrors, written, parsed, lastcheck, exitcode >>
    /\ UNCHANGED auxvars

\* After the loop: "if (totalerrors): ... sys.exit(1)", else the script ends.
MainExit ==
    /\ (pc = "main" /\ testix > Len(testls)) \/ pc = "exit"
    /\ pc' = "done"
    /\ exitcode' = IF totalerrors # 0 THEN 1 ELSE 0
    /\ UNCHANGED << remvars, terpformat, vital, testix, cmdlist, cmdix, nchecks,
                    chkix, totalerrors, proc, written, parsed, lastcheck, exc >>
    /\ UNCHANGED auxvars

Next ==
    \/ MainSkip
    \/ RunLaunch
    \/ RunInitialize
    \/ RunAcceptOutput
    \/ RunCheck
    \/ ChecksDone
    \/ RunPerformInput
    \/ RunTeardown
    \/ MainExit

Spec == Init /\ [][Next]_vars

(***************************************************************************)
(* Claims about the reconstructor (checked under SpecRem).                 *)
(***************************************************************************)

\* C1 as stated: over updates applied while no refresh command was sent,
\* state.generation after an update is at least its value before the update.
C1_GenerationNeverDecreases ==
    (nupdates >= 1 /\ ~refreshed /\ gs.generation # None /\ prevgen # None)
        => gs.generation >= prevgen

\* C1 amended: after every applied update state.generation equals the gen
\* field of that update, whether that is more or less than it was before.
C1_GenerationIsUpdateGen ==
    IsSome(lastgen) => gs.generation = lastgen[1]

\* An update lowered state.generation although no refresh was sent.
C1_Witness ==
    /\ nupdates >= 2 /\ ~refreshed /\ gs.err = ""
    /\ IsSome(lastgen) /\ lastgen[1] >= 0
    /\ gs.generation < prevgen

\* C2 as stated: once a windows list has been applied, no line, char,
\* hyperlink or mouse message is built for a window that is not in the
\* window set.
C2_NoMessageForDeletedWindow ==
    (winlistseen /\ out.err = "" /\ out.msg.window # None)
        => HasWin(gs.windows, out.msg.window)

(***************************************************************************)
(* Claims about the driver (checked under Spec).                           *)
(***************************************************************************)

\* A step that evaluates one check of the current command.
CheckStep == pc = "checks" /\ chkix < nchecks /\ (chkix' # chkix \/ pc' # pc)

\* C3 as stated: whenever control is outside run(), no subprocess that
\* run() launched is left running: every exit of run() went through the
\* teardown.
C3_TeardownOnEveryExit ==
    pc \in {"main", "exit", "done"} => proc # "running"

\* C4: in the RemGlk formats the messages written and the updates parsed
\* alternate, the init message first.  While an answer is awaited exactly
\* one message is unanswered, and it is the message of the last command
\* taken up; when a check or the next command is reached every message
\* written has had its update parsed; nothing is ever written while a
\* message is unanswered, so written never exceeds parsed by more than one.
C4_WritesAndUpdatesAlternate ==
    terpformat \in {"rem", "remsingle"} =>
        /\ parsed <= written /\ written <= parsed + 1
        /\ pc = "initialize" => (written = 0 /\ parsed = 0)
        /\ pc = "await" => (written = parsed + 1 /\ written = cmdix + 1)
        /\ pc \in {"checks", "command"} => (written = parsed /\ parsed = cmdix + 1)

\* Both commands of a test were written, each after the answer to the
\* message before it, and the last one awaits its answer.
C4_Witness ==
    /\ terpformat = "rem" /\ pc = "await"
    /\ cmdix = 2 /\ written = 3 /\ parsed = 2

\* C5 as stated: an exception raised while a test runs is in the hands of
\* run()'s except clauses, totalerrors counting it, and control goes on to
\* the teardown; and with --vital given fewer than two times the script
\* ends only after the main loop has passed every test.
C5_ErrorsCaughtAndCounted ==
    /\ exc \in {"Exception", "NotJSONException"} => (pc = "teardown" /\ totalerrors > 0)
    /\ (pc = "done" /\ vital < 2) => testix > Len(testls)

\* C6: without --vital, a failing check that has no {vital} modifier adds
\* one to totalerrors and moves on to the next check of the same command,
\* nothing else changing; the checks are left for the next command only
\* when all of them were evaluated, and the try block is left without an
\* exception only when all commands were taken up.
C6_NonVitalFailureGoesOn ==
    [][ /\ (vital = 0 /\ CheckStep /\ lastcheck'.failed /\ ~lastcheck'.own)
            => /\ totalerrors' = totalerrors + 1
               /\ pc' = "checks" /\ chkix' = chkix + 1
               /\ nchecks' = nchecks /\ cmdix' = cmdix /\ cmdlist' = cmdlist
               /\ written' = written /\ proc' = proc
        /\ (pc = "checks" /\ pc' = "command")
            => (chkix = nchecks /\ cmdix < Len(cmdlist))
        /\ (pc = "checks" /\ pc' = "teardown" /\ exc' = "")
            => (chkix = nchecks /\ cmdix = Len(cmdlist))
      ]_vars

\* After a failing non-vital check the next command of the test was written.
C6_Witness ==
    /\ vital = 0 /\ pc = "await" /\ cmdix >= 1
    /\ lastcheck.evaluated /\ lastcheck.failed /\ ~lastcheck.vital
    /\ totalerrors >= 1

\* C7: a failing vital check adds exactly one to totalerrors and takes
\* control straight to the teardown: no further check is evaluated and
\* nothing is written; and the teardown, once reached, is left only with
\* the subprocess no longer running, without any check, write or count.
C7_VitalFailureAbortsTest ==
    [][ /\ (CheckStep /\ lastcheck'.failed /\ lastcheck'.vital)
            => /\ totalerrors' = totalerrors + 1
               /\ pc' = "teardown"
               /\ chkix' = chkix /\ cmdix' = cmdix /\ written' = written
        /\ (pc = "teardown" /\ pc' # pc)
            => /\ pc' \in {"main", "exit"}
               /\ proc' # "running"
               /\ totalerrors' = totalerrors
               /\ lastcheck' = lastcheck /\ written' = written
      ]_vars

\* A vital check failed with another check of the command and another
\* command of the test still to come, and the teardown is next.
C7_Witness ==
    /\ pc = "teardown" /\ exc = "VitalCheckException"
    /\ lastcheck.failed /\ lastcheck.vital
    /\ chkix + 1 < nchecks /\ cmdix < Len(cmdlist)
    /\ proc = "running"

\* C8: with --vital once every failing check ends its test, and after the
\* teardown the main loop goes on to the next test; with --vital twice the
\* teardown of a test that leaves totalerrors non-zero is followed by the
\* exit, and the main loop takes up a test only while totalerrors is zero.
C8_VitalOnceAndTwice ==
    [][ /\ (vital = 1 /\ CheckStep /\ lastcheck'.failed) => pc' = "teardown"
        /\ (vital = 1 /\ pc = "teardown" /\ pc' # pc)
            => (pc' = "main" /\ testix' = testix + 1)
        /\ (vital = 2 /\ pc = "teardown" /\ pc' # pc /\ totalerrors # 0)
            => pc' = "exit"
        /\ (vital = 2 /\ pc = "exit" /\ pc' # pc) => pc' = "done"
        /\ (vital = 2 /\ pc = "main" /\ pc' # pc /\ testix <= Len(testls))
            => totalerrors = 0
      ]_vars

\* With --vital twice a failing check has stopped the run while tests of
\* the file were still to come.
C8_Witness ==
    /\ vital = 2 /\ pc = "exit"
    /\ lastcheck.failed /\ totalerrors = 1
    /\ testix < Len(testls)

\* C9 as stated (the exit status): when the script has ended, its status
\* is 1 if totalerrors is non-zero and 0 if it is zero.
C9_ExitStatusIffErrors ==
    pc = "done" =>
        /\ (exitcode = 1 <=> totalerrors # 0)
        /\ (exitcode = 0 <=> totalerrors = 0)

\* C10: on the display state of the running test, for every check, the
\* check with {invert} returns a failure exactly when the check without it
\* returns none, and returns none exactly when the plain check fails.
C10_InverseIsNegation ==
    \A check \in Checks :
        LET plain == Check_eval([ check EXCEPT !.inverse = FALSE ], gs)
            inv == Check_eval([ check EXCEPT !.inverse = TRUE ], gs)
        IN  /\ ResTruthy(inv) <=> ~ResTruthy(plain)
            /\ ~ResTruthy(inv) <=> ResTruthy(plain)

\* An inverted check was evaluated on a display with text in the story
\* window and passed.
C10_Witness ==
    /\ pc = "checks" /\ lastcheck.evaluated
    /\ lastcheck.inverse /\ ~lastcheck.failed
    /\ gs.storywin # << >>

(***************************************************************************)
(* regtest.py: the registry of check classes and the extension modules.    *)
(***************************************************************************)
MaxLoads == 2

\* The names dir(mod) can list for an extension module: Check subclasses of
\* its own, names it imported from the script (Check, LiteralCheck), and a
\* name that is no Check subclass.
ModuleNames == << "Check", "ExtA", "ExtB", "ExtC", "LiteralCheck", "helper" >>

\* "type(val) is classtype and issubclass(val, Check)"
IsCheckSubclass(name) == name # "helper"

\* The extension modules: dir(mod) lists the names in sorted order.
Modules ==
    { SelectSeq(ModuleNames, LAMBDA n : n \in S) :
        S \in SUBSET { ModuleNames[i] : i \in 1 .. Len(ModuleNames) } }

InRegistry(reg, cla) == \E i \in 1 .. Len(reg) : reg[i] = cla

\* A registration that puts the class at the end of the list.
RegisterClass_Append(reg, cla) == Append(reg, cla)

\* checkclasses.insert(0, val)
RegisterClass(reg, cla) == << cla >> \o reg

RECURSIVE parse_checkfile(_, _)
\* The loop of parse_checkfile over dir(mod).
parse_checkfile(reg, mod) ==
    IF mod = << >> THEN reg
    ELSE LET val == Head(mod)
         IN  IF ~IsCheckSubclass(val) \/ val = "Check" \/ InRegistry(reg, val)
             THEN parse_checkfile(reg, Tail(mod))
             ELSE parse_checkfile(RegisterClass(reg, val), Tail(mod))

\* The check lines of a test file, modifiers peeled off.
CheckLines ==
    { "/re", "{count=2} x", "{hyperlink=1} x", "{image=1} x", "{json x}", "x",
      "@a x", "@b x" }

\* Whether cla.buildcheck(ln, args) returns a Check.  Of the extension
\* classes ExtA takes the lines of its own form, ExtB those of its own form
\* and the regular expressions, ExtC every line.
Accepts(cla, ln) ==
    CASE cla = "RegExpCheck" -> ln = "/re"
      [] cla = "LiteralCountCheck" -> ln = "{count=2} x"
      [] cla = "HyperlinkSpanCheck" -> ln = "{hyperlink=1} x"
      [] cla = "ImageSpanCheck" -> ln = "{image=1} x"
      [] cla = "JSONSpanCheck" -> ln = "{json x}"
      [] cla = "LiteralCheck" -> TRUE
      [] cla = "ExtA" -> ln = "@a x"
      [] cla = "ExtB" -> ln \in {"@b x", "/re"}
      [] cla = "ExtC" -> TRUE
      [] OTHER -> FALSE

\* The loop of Command.addcheck over checkclasses: the class whose
\* buildcheck returns a Check first, or "" when the loop runs out.
addcheck(reg, ln) ==
    IF \E i \in 1 .. Len(reg) : Accepts(reg[i], ln)
    THEN reg[CHOOSE i \in 1 .. Len(reg) :
                /\ Accepts(reg[i], ln)
                /\ \A j \in 1 .. i - 1 : ~Accepts(reg[j], ln)]
    ELSE ""

\* An extension module is loaded, by --checkclass or by "** checkclass";
\* parse_tests takes "** checkclass" only before the first test of the file,
\* and check lines come after it.
LoadCheckfile ==
    /\ checkfile_counter < MaxLoads
    /\ lastline = ""
    /\ \E mod \in Modules : checkclasses' = parse_checkfile(checkclasses, mod)
    /\ checkfile_counter' = checkfile_counter + 1
    /\ UNCHANGED << lastline, builtby, remvars, drivervars, incvars, ifovars, rdvars, morevars >>

\* parse_tests hands a check line to addcheck.
AddCheck ==
    /\ \E ln \in CheckLines :
        /\ lastline' = ln
        /\ builtby' = addcheck(checkclasses, ln)
    /\ UNCHANGED << checkclasses, checkfile_counter, remvars, drivervars, incvars, ifovars, rdvars, morevars >>

RegInit == RemStart /\ DriverStart /\ AuxStart /\ terpformat = "cheap" /\ vital = 0

RegNext == LoadCheckfile \/ AddCheck

SpecReg == RegInit /\ [][RegNext]_vars

IsBuiltin(cla) == \E i \in 1 .. Len(BuiltinClasses) : BuiltinClasses[i] = cla

\* C11: in the registry every extension class comes before every built-in
\* class, the built-in classes are in the order RegExp, LiteralCount,
\* HyperlinkSpan, ImageSpan, JSONSpan, Literal, Literal is the last entry,
\* and a line whose Check Literal built is one that every other class of
\* the registry declines.
C11_ExtensionsBeforeBuiltins ==
    /\ \A i, j \in 1 .. Len(checkclasses) :
            (i < j /\ IsBuiltin(checkclasses[i])) => IsBuiltin(checkclasses[j])
    /\ SelectSeq(checkclasses, IsBuiltin) = BuiltinClasses
    /\ checkclasses[Len(checkclasses)] = "LiteralCheck"
    /\ builtby = "LiteralCheck" =>
            \A i \in 1 .. Len(checkclasses) :
                checkclasses[i] # "LiteralCheck" => ~Accepts(checkclasses[i], lastline)

\* Two modules were loaded, two extension classes are registered, and
\* Literal built the Check of a line.
C11_Witness ==
    /\ checkfile_counter = 2
    /\ Len(checkclasses) = Len(BuiltinClasses) + 2
    /\ builtby = "LiteralCheck"

(***************************************************************************)
(* regtest.py: include expansion over any test file.                       *)
(***************************************************************************)
MaxCmds == 2

\* The commands of the test files: two commands to send, and the includes
\* of the tests.
IncCommands ==
    { Command("line", "x"), Command("char", "y") }
      \cup { Command("include", n) : n \in IncNames }

\* The command lists of at most MaxCmds commands.
IncLists == UNION { [ 1 .. k -> IncCommands ] : k \in 0 .. MaxCmds }

\* The test maps: every test of IncNames with any command list.
TestMaps ==
    { [ n \in IncNames |-> [ name |-> n, cmds |-> f[n] ] ] : f \in [ IncNames -> IncLists ] }

\* run(): cmdlist = list_commands(precommands + test.cmds).
IncExpand ==
    /\ incres = NoRes
    /\ \E ls \in IncLists :
        /\ incls' = ls
        /\ incres' = list_commands_map(incmap, ls, << >>, {})
    /\ UNCHANGED << incmap, incagain, remvars, drivervars, regvars, ifovars, rdvars, morevars >>

\* list_commands called with the list it returned.
IncExpandAgain ==
    /\ incres # NoRes /\ incres.err = ""
    /\ incagain = NoRes
    /\ incagain' = list_commands_map(incmap, incres.res, << >>, {})
    /\ UNCHANGED << incmap, incls, incres, remvars, drivervars, regvars, ifovars, rdvars, morevars >>

\* The next test of the file.
IncNextTest ==
    /\ incres # NoRes
    /\ incls' = << >>
    /\ incres' = NoRes
    /\ incagain' = NoRes
    /\ UNCHANGED << incmap, remvars, drivervars, regvars, ifovars, rdvars, morevars >>

IncInit ==
    /\ RemStart /\ DriverStart /\ RegStart /\ IfoStart /\ RdStart /\ MoreStart
    /\ terpformat = "cheap" /\ vital = 0
    /\ incmap \in TestMaps
    /\ IncIdle

IncNext == IncExpand \/ IncExpandAgain \/ IncNextTest

SpecInc == IncInit /\ [][IncNext]_vars

\* The names a command list includes.
Included(ls) == { ls[i].cmd : i \in { j \in 1 .. Len(ls) : ls[j].type = "include" } }

RECURSIVE ReachableFrom(_, _)
\* The tests of tm reachable through includes from the names of S.
ReachableFrom(tm, S) ==
    LET T == S \cup UNION { Included(tm[n].cmds) : n \in S \cap DOMAIN tm }
    IN  IF T = S THEN S ELSE ReachableFrom(tm, T)

\* Some test that ls reaches through includes reaches itself.
Cyclic(tm, ls) ==
    \E n \in ReachableFrom(tm, Included(ls)) \cap DOMAIN tm :
        n \in ReachableFrom(tm, Included(tm[n].cmds))

\* Every include that ls reaches names a test of tm.
AllFound(tm, ls) == ReachableFrom(tm, Included(ls)) \subseteq DOMAIN tm

RECURSIVE Substitute(_, _)
\* The list ls with every include replaced, in place, by the substituted
\* command list of the test it names.
Substitute(tm, ls) ==
    IF ls = << >> THEN << >>
    ELSE (IF Head(ls).type = "include"
          THEN Substitute(tm, tm[Head(ls).cmd].cmds)
          ELSE << Head(ls) >>) \o Substitute(tm, Tail(ls))

\* C12: when the includes of the list are acyclic and name tests of the
\* file, list_commands raises nothing, its result holds no include command
\* and is the list with every include substituted in place, depth first;
\* and list_commands of the result is the result.
C12_ExpansionIsSubstitution ==
    (incres # NoRes /\ AllFound(incmap, incls) /\ ~Cyclic(incmap, incls)) =>
        /\ incres.err = ""
        /\ \A i \in 1 .. Len(incres.res) : incres.res[i].type # "include"
        /\ incres.res = Substitute(incmap, incls)
        /\ incagain # NoRes => incagain = incres

\* A list with a command and an include of a test that has a command and
\* an include of the other test was expanded, and its result expanded again.
C12_Witness ==
    /\ incagain # NoRes /\ incres.err = ""
    /\ ~Cyclic(incmap, incls)
    /\ incls = << Command("line", "x"), Command("include", "a") >>
    /\ incmap["a"].cmds = << Command("include", "b"), Command("char", "y") >>
    /\ Len(incmap["b"].cmds) = 2

\* C13: when a test that the list reaches through includes includes itself,
\* directly or through other tests, list_commands raises; it returns no
\* list.
C13_CyclicIncludeRaises ==
    (incres # NoRes /\ AllFound(incmap, incls) /\ Cyclic(incmap, incls)) =>
        incres.err = "Included test includes itself"

\* list_commands was called for the commands of test a, which includes
\* test b, which includes test a: the cycle passes through the test run.
C13_Witness ==
    /\ incres.err = "Included test includes itself"
    /\ incls = incmap["a"].cmds
    /\ incls = << Command("line", "x"), Command("include", "b") >>
    /\ incmap["b"].cmds = << Command("include", "a") >>

(***************************************************************************)
(* Claims about input requests (checked under SpecRem).                    *)
(***************************************************************************)

\* The field of the state that holds the window of an input request.
InputWinOf(st, type) ==
    CASE type = "line" -> st.lineinputwin
      [] type = "char" -> st.charinputwin
      [] type = "hyperlink" -> st.hyperlinkinputwin
      [] type = "mouse" -> st.mouseinputwin

NotExpecting(type) ==
    CASE type = "line" -> "Game is not expecting line input"
      [] type = "char" -> "Game is not expecting char input"
      [] type = "hyperlink" -> "Game is not expecting hyperlink input"
      [] type = "mouse" -> "Game is not expecting mouse input"

\* C14 as stated: for a line, char, hyperlink or mouse command the message
\* fails with "Game is not expecting X input" only when no window holds the
\* request of that kind, and a message that is built names the window that
\* holds it.
C14_RaisesExactlyWhenNoRequest ==
    \A type \in {"line", "char", "hyperlink", "mouse"} :
        /\ out.err = NotExpecting(type) => InputWinOf(gs, type) = None
        /\ (out.err = "" /\ out.msg.type = type) =>
                (InputWinOf(gs, type) # None /\ out.msg.window = InputWinOf(gs, type))

(***************************************************************************)
(* The two reconstructors on the same updates.                             *)
(***************************************************************************)
MaxHeight == 2
MaxTwoUpdates == 3

\* The windows of the display: windows 0 and 3 are buffers, windows 1 and 2 grids.
TwoWinType(id) == IF id \in {0, 3} THEN "buffer" ELSE "grid"

TwoWinDesc(id, h) == [ id |-> id, type |-> TwoWinType(id), gridheight |-> h ]

\* The windows lists: the buffer or not, grid 1 or not with any height,
\* grid 2 or not with one line; grid 2 listed before grid 1; two buffers.
TwoWindowLists ==
    { (IF b THEN << TwoWinDesc(0, 0) >> ELSE << >>)
        \o (IF h = None THEN << >> ELSE << TwoWinDesc(1, h) >>)
        \o (IF g THEN << TwoWinDesc(2, 1) >> ELSE << >>) :
      b \in BOOLEAN, h \in {None} \cup (0 .. MaxHeight), g \in BOOLEAN }
      \cup { << TwoWinDesc(2, 1), TwoWinDesc(1, h) >> : h \in 0 .. MaxHeight }
      \cup { << TwoWinDesc(0, 0), TwoWinDesc(3, 0) >> }

\* A paragraph entry of a buffer content entry.
Para(append, flowbreak, content) ==
    [ append |-> append, flowbreak |-> flowbreak, content |-> content ]

BufferEntry(clear, text) ==
    [ id |-> 0, clear |-> clear, text |-> text, lines |-> << >>, draw |-> << >> ]

GridEntry(id, line, ch) ==
    [ id |-> id, clear |-> FALSE, text |-> << >>,
      lines |-> << [ line |-> line, content |-> << Span(ch) >> ] >>, draw |-> << >> ]

\* The content entries: for the buffer a paragraph entry of each kind (new
\* or appended, with text or without, with a flowbreak, after a clear), for
\* the grids a line.
TwoContents ==
    { BufferEntry(FALSE, << Para(FALSE, FALSE, << Span("a") >>) >>),
      BufferEntry(FALSE, << Para(TRUE, FALSE, << Span("b") >>) >>),
      BufferEntry(FALSE, << Para(TRUE, FALSE, << >>) >>),
      BufferEntry(FALSE, << Para(FALSE, FALSE, << >>) >>),
      BufferEntry(FALSE, << Para(FALSE, TRUE, << Span("a") >>) >>),
      BufferEntry(TRUE, << Para(TRUE, FALSE, << Span("b") >>) >>),
      BufferEntry(FALSE, << Para(FALSE, FALSE, << Span("a") >>),
                            Para(TRUE, FALSE, << Span("b") >>) >>),
      GridEntry(1, 0, "a"), GridEntry(1, 1, "b"), GridEntry(2, 0, "a") }

\* Content for two buffer windows, and for two grid windows, in one update.
TwoEntryContents ==
    { << BufferEntry(FALSE, << Para(FALSE, FALSE, << Span("a") >>) >>),
         [ BufferEntry(FALSE, << Para(FALSE, FALSE, << Span("b") >>) >>) EXCEPT !.id = 3 ] >>,
      << GridEntry(1, 0, "a"), GridEntry(2, 0, "b") >> }

TwoInputDesc(id, type) ==
    [ id |-> id, type |-> type, gen |-> 1, hyperlink |-> FALSE, mouse |-> FALSE ]

\* The input lists: none, one request, or two requests of one kind for two
\* windows.
TwoInputs ==
    { << >>,
      << TwoInputDesc(0, "line") >>, << TwoInputDesc(1, "line") >>,
      << TwoInputDesc(0, "char") >>,
      << TwoInputDesc(0, "line"), TwoInputDesc(1, "line") >>,
      << TwoInputDesc(1, "line"), TwoInputDesc(0, "line") >>,
      << TwoInputDesc(1, "line"), TwoInputDesc(2, "line") >>,
      << TwoInputDesc(1, "char"), TwoInputDesc(2, "char") >> }

\* The updates: one section each, or content for a window together with
\* the input list that still holds the line request of that window.
TwoUpdates ==
    { [ NoUpdate EXCEPT !.gen = 1 ] }
      \cup { [ NoUpdate EXCEPT !.gen = 1, !.windows = Some(l) ] : l \in TwoWindowLists }
      \cup { [ NoUpdate EXCEPT !.gen = 1, !.content = Some(<< c >>) ] : c \in TwoContents }
      \cup { [ NoUpdate EXCEPT !.gen = 1, !.input = Some(l) ] : l \in TwoInputs }
      \cup { [ NoUpdate EXCEPT !.gen = 1, !.specialinput = Some("fileref_prompt") ] }
      \cup { [ NoUpdate EXCEPT !.gen = 1, !.content = Some(l) ] : l \in TwoEntryContents }
      \cup { [ NoUpdate EXCEPT !.gen = 1,
                               !.content = Some(<< BufferEntry(FALSE,
                                                << Para(FALSE, FALSE, << Span("a") >>) >>) >>),
                               !.input = Some(<< TwoInputDesc(0, "line") >>) ],
             [ NoUpdate EXCEPT !.gen = 1,
                               !.content = Some(<< GridEntry(1, 0, "a") >>),
                               !.input = Some(<< TwoInputDesc(1, "line") >>) ] }

\* The windows of ifomatic's state that await input of a type.
AwaitingWindows(st, type) ==
    { st.windowdic[k].id : k \in { i \in 1 .. Len(st.windowdic) :
                                      st.windowdic[i].input.type = type } }

\* min(ls)
MinOf(S) == CHOOSE x \in S : \A y \in S : x <= y

\* The window of ifomatic's hyperlink message, the string '###'.
HashWindow == 0 - 2

\* ifomatic's perform_input up to the write: the message or the exception.
\* Its state has no specialinput attribute, so the test of a fileref_prompt
\* command raises AttributeError.
Ifo_perform_input(st, type) ==
    CASE type \in {"line", "char"} ->
            IF AwaitingWindows(st, type) = {}
            THEN Raised("No window is awaiting input")
            ELSE Built([ type |-> type, gen |-> st.generation,
                         window |-> MinOf(AwaitingWindows(st, type)) ])
      [] type = "hyperlink" ->
            Built([ type |-> "hyperlink", gen |-> st.generation, window |-> HashWindow ])
      [] type \in {"timer", "arrange"} ->
            Built([ type |-> type, gen |-> st.generation, window |-> None ])
      [] type = "refresh" ->
            Built([ type |-> "refresh", gen |-> 0, window |-> None ])
      [] type = "fileref_prompt" -> Raised("AttributeError")
      [] type = "debug" ->
            Built([ type |-> "debuginput", gen |-> st.generation, window |-> None ])
      [] OTHER -> Raised("Command type not recognized")

\* The windows of ifomatic's state that await line input.
LinePending(st) ==
    { st.windowdic[k].id : k \in { i \in 1 .. Len(st.windowdic) :
                                      AwaitingLine(st.windowdic[i]) } }

\* Both tools read the same update and apply it.
TwoAcceptUpdate ==
    /\ gs.err = "" /\ ifo.err = ""
    /\ ifon < MaxTwoUpdates
    /\ \E u \in TwoUpdates :
        /\ ifoupd' = u
        /\ gs' = parse_remglk_update(gs, u)
        /\ ifo' = Ifo_accept_update(ifo, u)
    /\ ifon' = ifon + 1
    /\ ifopending' = [ ifo |-> LinePending(ifo), gs |-> gs.lineinputwin,
                       had |-> InputPending(ifo.windowdic),
                       kept |-> { h[1] : h \in InputPending(
                                    IF IsSome(ifoupd'.input)
                                    THEN accept_inputcancel(ifo.windowdic, ifoupd'.input[1])
                                    ELSE ifo.windowdic) } ]
    /\ UNCHANGED << out, histvars, drivervars, regvars, incvars, rdvars, morevars >>

\* The next session: both states as initialize leaves them.
TwoNewSession ==
    /\ ifon > 0
    /\ gs' = GameStateInit
    /\ ifo' = IfoStateInit
    /\ ifoupd' = NoUpdate
    /\ ifon' = 0
    /\ ifopending' = NonePending
    /\ UNCHANGED << out, histvars, drivervars, regvars, incvars, rdvars, morevars >>

TwoInit ==
    /\ RemStart /\ DriverStart /\ AuxStart
    /\ terpformat = "rem" /\ vital = 0

TwoNext == TwoAcceptUpdate \/ TwoNewSession

SpecTwo == TwoInit /\ [][TwoNext]_vars

(***************************************************************************)
(* Claims about the two reconstructors (checked under SpecTwo).            *)
(***************************************************************************)

\* A step that applies an update.
TwoStep == ifon' = ifon + 1

\* The list holds two requests of the same exclusive kind, line or char,
\* for two different windows.
TwoExclusive(l) ==
    \E i, j \in 1 .. Len(l) :
        /\ i < j /\ l[i].id # l[j].id
        /\ l[i].type = l[j].type /\ l[i].type \in {"line", "char"}

\* C15 as stated: an update whose input list holds two line requests, or
\* two char requests, for different windows makes both reconstructors raise.
C15_TwoRequestsRaise ==
    (ifon >= 1 /\ IsSome(ifoupd.input) /\ TwoExclusive(ifoupd.input[1]))
        => (gs.err # "" /\ ifo.err # "")

\* C16 as stated: an update that carries content for a window which awaited
\* line input before it, and whose input list still holds the line request
\* of that window with the generation it had, makes the reconstructor of
\* ifomatic raise.
C16_ContentOnLinePendingRaises ==
    (/\ ifon >= 1 /\ IsSome(ifoupd.content) /\ IsSome(ifoupd.input)
     /\ \E c \in 1 .. Len(ifoupd.content[1]), i \in 1 .. Len(ifoupd.input[1]) :
            /\ ifoupd.content[1][c].id \in ifopending.ifo
            /\ ifoupd.input[1][i].id = ifoupd.content[1][c].id
            /\ ifoupd.input[1][i].type = "line"
            /\ ifoupd.input[1][i].gen = 1)
        => ifo.err # ""

RECURSIVE SumHeights(_)
\* The sum of gridheight over the grid windows of regtest's window set.
SumHeights(ws) ==
    IF ws = << >> THEN 0
    ELSE (IF Head(ws).type = "grid" THEN Head(ws).gridheight ELSE 0) + SumHeights(Tail(ws))

\* The lines ifomatic's state holds for the grid window id, none if there
\* is no such window.
GridLinesOf(st, id) ==
    IF HasWin(st.windowdic, id) THEN GetWin(st.windowdic, id).gridlines ELSE << >>

\* C17: when an update with a windows list is applied, every grid window
\* of the list holds in ifomatic's state exactly gridheight lines, the lines
\* it had below that height unchanged and the lines beyond its old height
\* empty; and in regtest's state statuswin and statuswindat both have as
\* many lines as the gridheights of the grid windows add up to.
C17_GridHoldsExactlyHLines ==
    [][ (TwoStep /\ IsSome(ifoupd'.windows)) =>
            /\ \A k \in 1 .. Len(ifoupd'.windows[1]) :
                    LET arg == ifoupd'.windows[1][k]
                        old == GridLinesOf(ifo, arg.id)
                        new == GridLinesOf(ifo', arg.id)
                    IN  arg.type = "grid" =>
                            /\ HasWin(ifo'.windowdic, arg.id)
                            /\ GetWin(ifo'.windowdic, arg.id).gridheight = arg.gridheight
                            /\ Len(new) = arg.gridheight
                            /\ \A i \in 1 .. arg.gridheight :
                                    new[i] = IF i <= Len(old) THEN old[i] ELSE << >>
            /\ Len(gs'.statuswin) = SumHeights(gs'.windows)
            /\ Len(gs'.statuswindat) = SumHeights(gs'.windows)
      ]_vars

\* Grid 1 had one line with text; a windows list then gave it two lines and
\* added grid 2: the first line is kept, the second is empty, and regtest's
\* status window has three lines.
C17_Witness ==
    /\ ifon = 3 /\ IsSome(ifoupd.windows) /\ ifo.err = "" /\ gs.err = ""
    /\ Len(GridLinesOf(ifo, 1)) = 2
    /\ GridLinesOf(ifo, 1)[1] # << >> /\ GridLinesOf(ifo, 1)[2] = << >>
    /\ Len(gs.statuswin) = 3 /\ Len(gs.statuswindat) = 3

\* The update is one content entry for the buffer window, which both
\* states have, with the single paragraph entry p.
OneParagraph(u) ==
    /\ IsSome(u.content) /\ ~IsSome(u.input)
    /\ Len(u.content[1]) = 1
    /\ u.content[1][1].id = 0
    /\ Len(u.content[1][1].text) = 1

BufLinesOf(st) ==
    IF HasWin(st.windowdic, 0) THEN GetWin(st.windowdic, 0).buflines ELSE << >>

TimeoutSecs == 3

\* The bytes one answer may take, and the reads of one session.
MaxBytes == 3
MaxReads == 2

\* The classes whose accept_output reads the pipe with select.
SelectFormats == {"cheap", "rem"}

\* select.select([outfile], [], [], timeout): the waits after which it
\* returns the pipe as readable.
SelectWait == 0 .. (TimeoutSecs - 1)

\* The lines after the while loop: "if time.time() >= timeout_time: raise
\* Exception('Timed out awaiting output')", else the answer is used.
AfterLoop(now, t0) ==
    IF now >= t0 + TimeoutSecs THEN "timedout" ELSE "returned"

\* "ch == b''": GameStateRemGlk hands what it has to assert_json and
\* json.loads inside the loop, and what has not ended in a complete object
\* is no JSON; GameStateCheap breaks out of the loop.
AtEndOfStream(format, now, t0) ==
    IF format = "rem" THEN "jsonerror" ELSE AfterLoop(now, t0)

\* accept_output is called: timeout_time = time.time() + opts.timeout_secs.
ReadStart ==
    /\ rdpc # "reading" /\ rdreads < MaxReads
    /\ rdt0' = rdnow
    /\ rdbytes' = 0
    /\ rdeof' = FALSE
    /\ rdpc' = "reading"
    /\ rdreads' = rdreads + 1
    /\ UNCHANGED << rdnow, remvars, drivervars, regvars, incvars, ifovars, morevars >>

\* One turn of the while loop that reads a byte: select returns after the
\* wait d, the byte is added, and the loop breaks if the output is complete
\* (a JSON object for RemGlk, a prompt for a dumb terminal).
ReadByte ==
    /\ rdpc = "reading" /\ rdbytes < MaxBytes
    /\ \E d \in SelectWait, complete \in BOOLEAN :
        /\ rdnow' = rdnow + d
        /\ rdbytes' = rdbytes + 1
        /\ rdpc' = IF complete THEN AfterLoop(rdnow', rdt0) ELSE "reading"
    /\ UNCHANGED << rdt0, rdeof, rdreads, remvars, drivervars, regvars, incvars, ifovars, morevars >>

\* select returns the empty list after its whole timeout: the loop ends.
ReadSilence ==
    /\ rdpc = "reading"
    /\ rdnow' = rdnow + TimeoutSecs
    /\ rdpc' = AfterLoop(rdnow', rdt0)
    /\ UNCHANGED << rdt0, rdbytes, rdeof, rdreads, remvars, drivervars, regvars,
                    incvars, ifovars, morevars >>

\* The interpreter has exited: the pipe is readable and read(1) gives b''.
ReadEndOfStream ==
    /\ rdpc = "reading"
    /\ \E d \in SelectWait :
        /\ rdnow' = rdnow + d
        /\ rdeof' = TRUE
        /\ rdpc' = AtEndOfStream(terpformat, rdnow', rdt0)
    /\ UNCHANGED << rdt0, rdbytes, rdreads, remvars, drivervars, regvars, incvars,
                    ifovars, morevars >>

\* A new run of the script.
ReadNewSession ==
    /\ rdpc \notin {"idle", "reading"} /\ rdreads = MaxReads
    /\ rdnow' = 0 /\ rdt0' = 0 /\ rdbytes' = 0
    /\ rdpc' = "idle" /\ rdeof' = FALSE /\ rdreads' = 0
    /\ UNCHANGED << remvars, drivervars, regvars, incvars, ifovars, morevars >>

RdInit ==
    /\ RemStart
    /\ DriverStart
    /\ AuxStart
    /\ terpformat \in SelectFormats
    /\ vital = 0

RdNext ==
    \/ ReadStart
    \/ ReadByte
    \/ ReadSilence
    \/ ReadEndOfStream
    \/ ReadNewSession

SpecRead == RdInit /\ [][RdNext]_vars

\* C19 as stated: a read that began at t0 has returned or raised by
\* t0 + TimeoutSecs, however the bytes are paced.
C19_ReadEndsByDeadline ==
    rdpc \in {"returned", "timedout", "jsonerror"} => rdnow <= rdt0 + TimeoutSecs

\* C20 as stated: when the interpreter has exited without output after the
\* first exchange, the read of the next command ends in the timeout error.
C20_SilentExitEndsInTimeout ==
    (rdreads >= 2 /\ rdeof /\ rdbytes = 0 /\ rdpc # "reading") => rdpc = "timedout"

(***************************************************************************)
(* regtest.py: the bytes of one answer, assert_json and the read loop of   *)
(* GameStateRemGlk.accept_output.                                          *)
(***************************************************************************)
\* The bytes of one answer.
MaxStream == 4

\* The bytes the interpreter may send: a letter, a blank, a newline, and
\* the braces of a JSON object.
StreamChars == {"x", " ", "\n", "{", "}"}

Whitespace == {" ", "\n"}

RECURSIVE Lstrip(_)
\* str.lstrip()
Lstrip(dat) ==
    IF dat = << >> \/ Head(dat) \notin Whitespace THEN dat ELSE Lstrip(Tail(dat))

RECURSIVE Rstrip(_)
\* str.rstrip()
Rstrip(dat) ==
    IF dat = << >> \/ dat[Len(dat)] \notin Whitespace THEN dat
    ELSE Rstrip(SubSeq(dat, 1, Len(dat) - 1))

\* The index of the first newline of dat, 0 if it has none.
NewlineAt(dat) ==
    LET S == { i \in 1 .. Len(dat) : dat[i] = "\n" }
    IN  IF S = {} THEN 0 ELSE CHOOSE i \in S : \A j \in S : i <= j

\* "ln, _, dat = dat.partition('\n')"
PartitionLine(dat) ==
    LET at == NewlineAt(dat)
    IN  IF at = 0 THEN [ ln |-> dat, rest |-> << >> ]
        ELSE [ ln |-> SubSeq(dat, 1, at - 1), rest |-> SubSeq(dat, at + 1, Len(dat)) ]

RECURSIVE BadLines(_)
\* The while loop of assert_json on text stripped on the left: the lines
\* before the text first starts with an open brace.
BadLines(dat) ==
    IF dat = << >> \/ Head(dat) = "{" THEN << >>
    ELSE LET p == PartitionLine(dat)
         IN  << Rstrip(p.ln) >> \o BadLines(Lstrip(p.rest))

\* assert_json(dat): the lines NotJSONException is raised with, none if it
\* is not raised.
assert_json(dat) == BadLines(Lstrip(dat))

\* json.loads(dat) returns an object: over these bytes, an open brace and a
\* close brace with nothing but white space between and around them.
IsJSON(dat) ==
    LET t == Rstrip(Lstrip(dat))
    IN  /\ Len(t) >= 2 /\ t[1] = "{" /\ t[Len(t)] = "}"
        /\ \A i \in 2 .. Len(t) - 1 : t[i] \in Whitespace

\* What the loop does with the text read so far when it looks at it:
\* assert_json comes first, json.loads after it.
LookAt(dat, atend) ==
    IF assert_json(dat) # << >>
    THEN [ pc |-> "NotJSONException", bad |-> assert_json(dat) ]
    ELSE IF IsJSON(dat) THEN [ pc |-> "parsed", bad |-> << >> ]
    ELSE IF atend THEN [ pc |-> "JSONDecodeError", bad |-> << >> ]
    ELSE [ pc |-> "reading", bad |-> << >> ]

\* One turn of the while loop that reads a byte: the text is looked at only
\* when the byte is a close brace.
StreamByte ==
    /\ spc = "reading" /\ Len(sdat) < MaxStream
    /\ \E ch \in StreamChars :
        LET r == IF ch = "}" THEN LookAt(Append(sdat, ch), FALSE)
                 ELSE [ pc |-> "reading", bad |-> << >> ]
        IN  /\ sdat' = Append(sdat, ch)
            /\ spc' = r.pc
            /\ sbad' = r.bad
    /\ UNCHANGED << oldvars, strrest >>

\* "ch == b''": the stream has ended, the text read is looked at.
StreamEnd ==
    /\ spc = "reading"
    /\ spc' = LookAt(sdat, TRUE).pc
    /\ sbad' = LookAt(sdat, TRUE).bad
    /\ UNCHANGED << sdat, oldvars, strrest >>

\* select returns the empty list: the loop ends and the deadline has passed.
StreamSilence ==
    /\ spc = "reading"
    /\ spc' = "timedout"
    /\ UNCHANGED << sdat, sbad, oldvars, strrest >>

\* The next answer is read.
StreamNew ==
    /\ spc # "reading"
    /\ sdat' = << >> /\ spc' = "reading" /\ sbad' = << >>
    /\ UNCHANGED << oldvars, strrest >>

StrInit == RemStart /\ DriverStart /\ AuxStart /\ terpformat = "rem" /\ vital = 0

StrNext == StreamByte \/ StreamEnd \/ StreamSilence \/ StreamNew

SpecStream == StrInit /\ [][StrNext]_vars

\* The text does not start with an open brace, white space aside.
StartsWithBanner(dat) == Lstrip(dat) # << >> /\ Head(Lstrip(dat)) # "{"

\* C21 as stated: a read of output that does not start with an open brace
\* ends in the not-JSON error carrying lines, which run() counts as one
\* error, whether the output ends, goes on, or stops with the stream open.
C21_BannerEndsInNotJSON ==
    (spc # "reading" /\ StartsWithBanner(sdat)) =>
        (spc = "NotJSONException" /\ sbad # << >> /\ HandlerErrors(spc) = 1)

(***************************************************************************)
(* regtest.py: GameStateRemGlkSingle, one subprocess for each turn.        *)
(***************************************************************************)
\* The subprocesses of one run of the script.
MaxSpawns == 3

\* The arguments added to the interpreter's for the first turn and for the
\* turns after it.
FirstTurnArgs == << "-singleturn", "--autosave" >>
LaterTurnArgs == << "-singleturn", "-autometrics", "--autosave", "--autorestore" >>

\* Whether the subprocess answers and exits before the timeout.
Answers == {"answers", "hangs"}

\* subprocess.Popen(...) and proc.communicate(input, timeout=
\* opts.timeout_secs): communicate returns when the subprocess has exited
\* and been waited for; when the timeout expires it raises TimeoutExpired
\* and leaves the subprocess running.
Communicate(args, ans) == [ args |-> args, alive |-> (ans = "hangs") ]

\* GameStateRemGlkSingle.initialize()
SingleInitialize ==
    /\ sgpc = "initialize" /\ Len(sgprocs) < MaxSpawns
    /\ \E ans \in Answers :
        /\ sgprocs' = Append(sgprocs, Communicate(FirstTurnArgs, ans))
        /\ sgpc' = IF ans = "hangs" THEN "raised" ELSE "await"
    /\ gs' = GameStateInit
    /\ UNCHANGED << out, histvars, drivervars, regvars, incvars, ifovars, rdvars, sglrest >>

\* GameStateRemGlkSingle.accept_output(): the answer kept in pendingupdate
\* is checked, loaded and parsed.
SingleAcceptOutput ==
    /\ sgpc = "await"
    /\ \E ev \in ReadEvents("remsingle") \ { [ kind |-> "timeout" ] } :
        LET r == accept_output("remsingle", gs, ev)
        IN  /\ gs' = r.gs
            /\ sgpc' = IF r.exc # "" THEN "raised" ELSE "command"
    /\ UNCHANGED << sgprocs, out, histvars, drivervars, regvars, incvars, ifovars,
                    rdvars, sglrest >>

\* GameStateRemGlkSingle.perform_input(cmd): the message is built, and if
\* that raises nothing is spawned.
SinglePerformInput ==
    /\ sgpc = "command" /\ Len(sgprocs) < MaxSpawns
    /\ \E type \in CmdTypes, ans \in Answers :
        LET m == construct_remglk_input(gs, type)
        IN  /\ out' = m
            /\ IF m.err # ""
               THEN sgpc' = "raised" /\ UNCHANGED sgprocs
               ELSE /\ sgprocs' = Append(sgprocs, Communicate(LaterTurnArgs, ans))
                    /\ sgpc' = IF ans = "hangs" THEN "raised" ELSE "await"
    /\ UNCHANGED << gs, histvars, drivervars, regvars, incvars, ifovars, rdvars, sglrest >>

\* The test ends, by its last command or by an exception: run() has no proc
\* to close in this mode, and the main loop goes on to the next test.
SingleEndTest ==
    /\ sgpc \in {"command", "raised"}
    /\ sgpc' = "initialize"
    /\ gs' = GameStateInit /\ out' = Built(NoMsg)
    /\ UNCHANGED << sgprocs, histvars, drivervars, regvars, incvars, ifovars, rdvars,
                    sglrest >>

\* A new run of the script.
SingleNewRun ==
    /\ sgpc = "initialize" /\ sgprocs # << >>
    /\ sgprocs' = << >>
    /\ UNCHANGED << sgpc, remvars, drivervars, regvars, incvars, ifovars, rdvars, sglrest >>

SglInit == RemStart /\ DriverStart /\ AuxStart /\ terpformat = "remsingle" /\ vital = 0

SglNext ==
    \/ SingleInitialize
    \/ SingleAcceptOutput
    \/ SinglePerformInput
    \/ SingleEndTest
    \/ SingleNewRun

SpecSingle == SglInit /\ [][SglNext]_vars

\* C22 as stated: every subprocess of single-turn mode has its turn's
\* arguments and has been terminated and reaped when the call that spawned
\* it has returned or raised.
C22_NoSubprocessOutlivesItsCall ==
    \A i \in 1 .. Len(sgprocs) :
        /\ sgprocs[i].args \in {FirstTurnArgs, LaterTurnArgs}
        /\ ~sgprocs[i].alive

(***************************************************************************)
(* Claims about the messages and the input foci (checked under SpecRem).   *)
(***************************************************************************)

\* C23: the init message and every refresh message carry gen 0; every
\* other message that is built carries the gen of the update parsed last
\* (the 0 of initialize if none was parsed yet).
C23_MessagesCarryGeneration ==
    /\ InitMessage.gen = 0
    /\ (out.err = "" /\ out.msg.type # "none") =>
            /\ out.msg.type \in {"line", "char", "hyperlink", "mouse", "timer",
                                 "arrange", "refresh", "specialresponse", "debuginput"}
            /\ out.msg.gen = IF out.msg.type = "refresh" THEN 0
                             ELSE IF IsSome(lastgen) THEN lastgen[1] ELSE 0

\* A refresh message was built with gen 0 while the generation was 1.
C23_Witness ==
    /\ out.err = "" /\ out.msg.type = "refresh" /\ out.msg.gen = 0
    /\ gs.generation = 1 /\ nupdates = 2

\* C24 as stated, for an update that carries specialinput and is applied by
\* both tools: regtest's specialinput is its type and its four foci are
\* empty, and a line, char, hyperlink or mouse command is rejected by
\* regtest and a line or char command by ifomatic.
C24_SpecialInputBlocksCommands ==
    (ifon >= 1 /\ IsSome(ifoupd.specialinput) /\ gs.err = "" /\ ifo.err = "") =>
        /\ gs.specialinput = ifoupd.specialinput[1]
        /\ gs.lineinputwin = None /\ gs.charinputwin = None
        /\ gs.hyperlinkinputwin = None /\ gs.mouseinputwin = None
        /\ \A t \in {"line", "char", "hyperlink", "mouse"} :
                construct_remglk_input(gs, t).err # ""
        /\ \A t \in {"line", "char"} : Ifo_perform_input(ifo, t).err # ""

(***************************************************************************)
(* Claims about regtest's flattened projections (checked under SpecTwo).   *)
(***************************************************************************)

\* The grid windows of regtest's window set.
GridsOf(st) == { st.windows[i] : i \in { j \in 1 .. Len(st.windows) :
                                            st.windows[j].type = "grid" } }

RECURSIVE SumOfHeights(_)
SumOfHeights(S) ==
    IF S = {} THEN 0
    ELSE LET w == CHOOSE w \in S : TRUE IN w.gridheight + SumOfHeights(S \ {w})

\* C25 as stated: the starting row recorded for a grid window is the sum of
\* the gridheights of the grid windows with a smaller id, whatever the order
\* of the windows list.
C25_StartIsSumOfSmallerIds ==
    gs.err = "" =>
        \A g \in GridsOf(gs) :
            StartOf(gs.statuslinestarts, g.id) =
                SumOfHeights({ w \in GridsOf(gs) : w.id < g.id })

\* C26 as stated: for every grid window and every line below its height,
\* the status projection holds at row start + line the text delivered last
\* for that line of that window, which is the text ifomatic keeps for the
\* window.
C26_StatusRowsHoldGridLines ==
    (gs.err = "" /\ ifo.err = "") =>
        \A g \in GridsOf(gs) :
            \A i \in 0 .. g.gridheight - 1 :
                LET row == StartOf(gs.statuslinestarts, g.id) + i
                IN  /\ row < Len(gs.statuswin)
                    /\ gs.statuswin[row + 1] = Join(GridLinesOf(ifo, g.id)[i + 1])

RECURSIVE AllParagraphs(_)
\* The text of the paragraph entries of the content entries, in order.
AllParagraphs(entries) ==
    IF entries = << >> THEN << >>
    ELSE [ k \in 1 .. Len(Head(entries).text) |-> extract_text(Head(entries).text[k]) ]
            \o AllParagraphs(Tail(entries))

\* C30 as stated: after an update with content entries for several buffer
\* windows the story projection holds the paragraphs of all of them in the
\* order of the entries, and after one with entries for several grid
\* windows each line is in the status projection.
C30_AllWindowsInProjection ==
    (ifon >= 1 /\ gs.err = "" /\ IsSome(ifoupd.content) /\ Len(ifoupd.content[1]) >= 2) =>
        LET entries == ifoupd.content[1]
            type == GetWin(gs.windows, entries[1].id).type
        IN  /\ type = "buffer" => gs.storywin = AllParagraphs(entries)
            /\ type = "grid" =>
                    \A e \in 1 .. Len(entries) :
                        LET g == GetWin(gs.windows, entries[e].id)
                            ln == entries[e].lines[1]
                        IN  ln.line < g.gridheight =>
                                gs.statuswin[StartOf(gs.statuslinestarts, g.id) + ln.line + 1]
                                    = extract_text(ln)

(***************************************************************************)
(* regtest.py: the game file and the interpreter a test is run with.       *)
(***************************************************************************)
\* What a "** game:" or "** interpreter:" line or an option may give: nothing,
\* an empty value, or a path (one for each place it can come from).
Given(path) == {NotGiven, "", path}

\* Python's truth of a string or None.
TruthyStr(x) == x # NotGiven /\ x # ""

\* The option read after the file, with the file's value going first.
OptionOver_FileFirst(opt, global) == IF TruthyStr(global) THEN global ELSE opt

\* "if (opts.gamefile): gamefile = opts.gamefile", and the same for
\* opts.terppath.
OptionOver(opt, global) == IF TruthyStr(opt) THEN opt ELSE global

\* "if (test.gamefile): testgamefile = test.gamefile", and the same for
\* test.terp.
TestOver(test, global) == IF TruthyStr(test) THEN test ELSE global

\* The command line and the test file are chosen.
RsChoose ==
    /\ rspc = "start"
    /\ rsin' \in [ filegame : Given("fg"), fileterp : Given("ft"),
                    optgame : Given("og"), optterp : Given("ot"),
                    testgame : Given("tg"), testterp : Given("tt") ]
    /\ rspc' = "parse"
    /\ UNCHANGED << rsglobal, rstest, rsout, oldvars, rsrest >>

\* parse_tests: the lines before the first test set the globals, the lines
\* inside the test set its fields; "subls[0]" raises IndexError for an
\* interpreter line without a value.
RsParseTests ==
    /\ rspc = "parse"
    /\ IF rsin.fileterp = "" \/ rsin.testterp = ""
       THEN rspc' = "raised" /\ UNCHANGED << rsglobal, rstest >>
       ELSE /\ rsglobal' = [ gamefile |-> rsin.filegame, terppath |-> rsin.fileterp ]
            /\ rstest' = [ gamefile |-> rsin.testgame, terp |-> rsin.testterp ]
            /\ rspc' = "options"
    /\ UNCHANGED << rsin, rsout, oldvars, rsrest >>

\* The lines after parse_tests: the options are applied and the script
\* exits if no game file or no interpreter is known.
RsOptions ==
    /\ rspc = "options"
    /\ LET g == OptionOver(rsin.optgame, rsglobal.gamefile)
           t == OptionOver(rsin.optterp, rsglobal.terppath)
       IN  /\ rsglobal' = [ gamefile |-> g, terppath |-> t ]
           /\ rspc' = IF ~TruthyStr(g) \/ ~TruthyStr(t) THEN "exit" ELSE "run"
    /\ UNCHANGED << rsin, rstest, rsout, oldvars, rsrest >>

\* The first lines of run(test).
RsRun ==
    /\ rspc = "run"
    /\ rsout' = [ gamefile |-> TestOver(rstest.gamefile, rsglobal.gamefile),
                  terp |-> TestOver(rstest.terp, rsglobal.terppath) ]
    /\ rspc' = "running"
    /\ UNCHANGED << rsin, rsglobal, rstest, oldvars, rsrest >>

\* The script is started again.
RsAgain ==
    /\ rspc \in {"raised", "exit", "running"}
    /\ rsin' = [ filegame |-> NotGiven, fileterp |-> NotGiven,
                 optgame |-> NotGiven, optterp |-> NotGiven,
                 testgame |-> NotGiven, testterp |-> NotGiven ]
    /\ rsglobal' = [ gamefile |-> NotGiven, terppath |-> NotGiven ]
    /\ rstest' = [ gamefile |-> NotGiven, terp |-> NotGiven ]
    /\ rsout' = [ gamefile |-> NotGiven, terp |-> NotGiven ]
    /\ rspc' = "start"
    /\ UNCHANGED << oldvars, rsrest >>

RsInit == RemStart /\ DriverStart /\ AuxStart /\ terpformat = "cheap" /\ vital = 0

RsNext == RsChoose \/ RsParseTests \/ RsOptions \/ RsRun \/ RsAgain

SpecResolve == RsInit /\ [][RsNext]_vars

\* The first of the values that is given (not None and not empty).
FirstGiven(a, b, c) == IF TruthyStr(a) THEN a ELSE IF TruthyStr(b) THEN b ELSE c

\* C27 as stated: a test is run with the test-level value if the test gives
\* one, else with the file-level value if the file gives one, else with the
\* value of the option.
C27_TestThenFileThenOption ==
    rspc = "running" =>
        /\ rsout.gamefile = FirstGiven(rsin.testgame, rsin.filegame, rsin.optgame)
        /\ rsout.terp = FirstGiven(rsin.testterp, rsin.fileterp, rsin.optterp)

\* C27 amended: a test is run with the test-level value if the test gives
\* one, else with the value of the option if the command line gives one,
\* else with the file-level value; and a value is always found.
C27_TestThenOptionThenFile ==
    rspc = "running" =>
        /\ rsout.gamefile = FirstGiven(rsin.testgame, rsin.optgame, rsin.filegame)
        /\ rsout.terp = FirstGiven(rsin.testterp, rsin.optterp, rsin.fileterp)
        /\ TruthyStr(rsout.gamefile) /\ TruthyStr(rsout.terp)

\* The file and the command line both name a game and an interpreter, the
\* test names neither, and the test runs with the values of the options.
C27_Witness ==
    /\ rspc = "running"
    /\ rsin.testgame = NotGiven /\ rsin.testterp = NotGiven
    /\ rsin.filegame = "fg" /\ rsin.fileterp = "ft"
    /\ rsout.gamefile = "og" /\ rsout.terp = "ot"

(***************************************************************************)
(* Claims about the checks and cheap mode.                                 *)
(***************************************************************************)

RECURSIVE TotalOccurrences(_, _)
\* The positions at which the needle occurs, summed over the lines.
TotalOccurrences(needle, lines) ==
    IF lines = << >> THEN 0
    ELSE Occurrences(needle, Head(lines)) + TotalOccurrences(needle, Tail(lines))

\* C28 as stated: on the story projection the checks of a command are
\* evaluated on, a LiteralCount check with count n succeeds exactly when the
\* needle occurs at n positions or more in all, for n = 0 and for no lines
\* too; otherwise it fails, with 'only found k times' when it occurs at
\* k > 0 positions.
C28_CountSucceedsIffEnough ==
    pc = "checks" =>
      \A needle \in { << "a" >>, << "a", "a" >> }, n \in 0 .. 2 :
        LET k == TotalOccurrences(needle, gs.storywin)
            r == LiteralCountCheck_subeval(needle, n, gs.storywin)
        IN  IF k >= n THEN r = ResNone
            ELSE r = (IF k > 0 THEN ResFail("only found %d times", k)
                      ELSE ResFail("not found", 0))

\* C29: in cheap mode the status and graphics projections are empty in
\* every state, and a command whose type is not line is rejected with an
\* exception, counted once, with nothing written to the interpreter.
C29_CheapTakesOnlyLines ==
    /\ [](terpformat = "cheap" =>
            /\ gs.statuswin = << >> /\ gs.statuswindat = << >>
            /\ gs.graphicswin = << >> /\ gs.graphicswindat = << >>)
    /\ [][ (/\ terpformat = "cheap" /\ pc = "command" /\ cmdix' = cmdix + 1
            /\ cmdlist[cmdix + 1].type # "line") =>
                /\ written' = written
                /\ out'.err # ""
                /\ pc' = "teardown" /\ exc' = "Exception"
                /\ totalerrors' = totalerrors + 1 ]_vars

\* In cheap mode the line command of a test was written and answered, and
\* the char command after it was rejected without a write.
C29_Witness ==
    /\ terpformat = "cheap" /\ pc = "teardown" /\ exc = "Exception"
    /\ cmdix = 2 /\ cmdlist[2].type = "char"
    /\ written = 1 /\ parsed = 2
    /\ gs.statuswin = << >> /\ gs.graphicswin = << >>

(***************************************************************************)
(* Claims about what a check is handed (checked under Spec).               *)
(***************************************************************************)

\* C31 as stated: the story lines a check of a command is evaluated on are
\* exactly the story lines the interpreter sent in the answer to that
\* command; text of an earlier answer is never among them, in particular
\* when the answer carries no buffer content.
C31_ChecksSeeOnlyCurrentOutput ==
    (pc = "checks" /\ chkix < nchecks) => gs.storywin = produced

\* C32: every test starts from an empty display state.  Until the first
\* answer of a test has been parsed, the windows, generation, input foci,
\* special input and the story, status and graphics projections are those
\* of a new GameState object, whatever the tests before left behind; the
\* step that starts a test keeps totalerrors and the check-class registry.
C32_TestStartsEmpty ==
    /\ []((pc \in {"initialize", "await"} /\ parsed = 0) => gs = GameStateInit)
    /\ [][ (pc = "main" /\ pc' = "initialize") =>
              /\ gs' = GameStateInit /\ out' = Built(NoMsg)
              /\ totalerrors' = totalerrors
              /\ checkclasses' = checkclasses ]_vars

\* A later test awaits its first answer with an empty display state, after
\* a test that parsed answers and counted errors.
C32_Witness ==
    /\ pc = "await" /\ parsed = 0 /\ testix >= 2 /\ totalerrors >= 1
    /\ terpformat = "rem"
    /\ gs = GameStateInit

(***************************************************************************)
(* Claims about ifomatic's input and content handling (under SpecTwo).     *)
(***************************************************************************)

\* C33 as stated: the input-cancellation step of an update with an input
\* list clears the pending input of a window if and only if the list has no
\* typed descriptor for that window's id, or has one whose gen is greater
\* than the gen of the pending input; an input whose descriptor is present
\* with the same gen is still pending when the content is applied.
C33_CancelExactlyStaleInputs ==
    (ifon >= 1 /\ IsSome(ifoupd.input)) =>
        \A h \in ifopending.had :
            LET arg == ifoupd.input[1]
                ds == { i \in 1 .. Len(arg) : arg[i].type # "None" /\ arg[i].id = h[1] }
            IN  (h[1] \notin ifopending.kept)
                    <=> (ds = {} \/ \E i \in ds : arg[i].gen > h[2])

RECURSIVE RawText(_)
\* The concatenated text of one row of a raw projection (a list of content
\* arrays).
RawText(row) ==
    IF row = << >> THEN << >>
    ELSE ExtractTextFrom(Head(row), 1) \o RawText(Tail(row))

\* C34 as stated: after a grid content delta for a line of a grid window,
\* that line holds exactly the spans of the delta, in the plain-text and in
\* the raw projection of regtest and in the grid lines of ifomatic; and after
\* any updates the plain-text status line at every row is the concatenated
\* text of the raw status line at that row.
C34_GridLineHoldsItsDelta ==
    (ifon >= 1 /\ gs.err = "" /\ ifo.err = "") =>
        /\ \A i \in 1 .. Len(gs.statuswin) :
                /\ i <= Len(gs.statuswindat)
                /\ gs.statuswin[i] = RawText(gs.statuswindat[i])
        /\ IsSome(ifoupd.content) =>
                \A c \in 1 .. Len(ifoupd.content[1]) :
                    LET arg == ifoupd.content[1][c]
                    IN  (HasWin(gs.windows, arg.id)
                            /\ GetWin(gs.windows, arg.id).type = "grid") =>
                        \A k \in 1 .. Len(arg.lines) :
                            LET line == arg.lines[k]
                                row == StartOf(gs.statuslinestarts, arg.id) + line.line
                            IN  /\ GridLinesOf(ifo, arg.id)[line.line + 1]
                                      = SpanElements(line.content, 1)
                                /\ (row >= 0 /\ row < Len(gs.statuswin)) =>
                                      /\ gs.statuswin[row + 1] = extract_text(line)
                                      /\ gs.statuswindat[row + 1] = << extract_raw(line) >>

(***************************************************************************)
(* Claims about the order of run() (checked under Spec).                   *)
(***************************************************************************)

MaxLines == 3

\* The lines of a test file, as lists of characters: an empty line, a
\* comment, options without a colon and with an unknown key, two test
\* headers, a command, and check lines: plain, inverted, and with a
\* modifier addcheck does not know.
FileLines ==
    { << >>, << "#", "c" >>,
      << "*", "*", "x" >>, << "*", "*", "x", ":", "y" >>,
      << "*", " ", "t" >>, << "*", "u" >>,
      << ">", "l" >>,
      << "a" >>, << "!", " ", "a" >>, << "{", "z", "}", "a" >> }

RECURSIVE FilesOf(_)
FilesOf(n) ==
    IF n = 0 THEN { << >> }
    ELSE LET S == FilesOf(n - 1)
         IN  S \cup { Append(f, ln) : f \in { g \in S : Len(g) = n - 1 }, ln \in FileLines }

Letters ==
    { "a", "b", "c", "d", "e", "f", "g", "h", "i", "j", "k", "l", "m", "n", "o",
      "p", "q", "r", "s", "t", "u", "v", "w", "x", "y", "z" }

\* str.startswith and str.strip
StartsWith(ln, pre) == Len(ln) >= Len(pre) /\ SubSeq(ln, 1, Len(pre)) = pre

Strip(ln) == Rstrip(Lstrip(ln))

\* ln[n:]
From(ln, n) == SubSeq(ln, n + 1, Len(ln))

\* ln.find(':'), as an index from 1, or 0 when there is none.
FindColon(ln) ==
    IF \E i \in 1 .. Len(ln) : ln[i] = ":"
    THEN CHOOSE i \in 1 .. Len(ln) : ln[i] = ":" /\ \A j \in 1 .. i - 1 : ln[j] # ":"
    ELSE 0

\* The keys of "**" lines parse_tests knows before the first test, and
\* inside a test.
FileKeys ==
    { << "p", "r", "e" >>, << "p", "r", "e", "c", "o", "m", "m", "a", "n", "d" >>,
      << "g", "a", "m", "e" >>,
      << "i", "n", "t", "e", "r", "p", "r", "e", "t", "e", "r" >>,
      << "r", "e", "m", "f", "o", "r", "m", "a", "t" >>,
      << "c", "h", "e", "c", "k", "c", "l", "a", "s", "s" >> }

TestKeys ==
    { << "g", "a", "m", "e" >>,
      << "i", "n", "t", "e", "r", "p", "r", "e", "t", "e", "r" >> }

\* The branch of the loop body a stripped line takes.
LineKind(ln) ==
    IF ln = << >> \/ StartsWith(ln, << "#" >>) THEN "skip"
    ELSE IF StartsWith(ln, << "*", "*" >>) THEN "option"
    ELSE IF StartsWith(ln, << "*" >>) THEN "header"
    ELSE IF StartsWith(ln, << ">" >>) THEN "command"
    ELSE "check"

\* The length of the match of re.match('!|{[a-z]*}', ln), or 0.
ModifierMatch(ln) ==
    IF ln = << >> THEN 0
    ELSE IF ln[1] = "!" THEN 1
    ELSE IF ln[1] # "{" THEN 0
    ELSE LET closes == { k \in 2 .. Len(ln) :
                           ln[k] = "}" /\ \A j \in 2 .. k - 1 : ln[j] \in Letters }
         IN  IF closes = {} THEN 0 ELSE CHOOSE k \in closes : TRUE

NoArgs == [ inverse |-> FALSE, instatus |-> FALSE, ingraphics |-> FALSE,
            vital |-> FALSE ]

RECURSIVE PeelModifiers(_, _)
\* The first loop of Command.addcheck: the "!" and "{...}" prefixes are
\* peeled off into args; a modifier it does not know raises.
PeelModifiers(ln, args) ==
    LET m == ModifierMatch(ln)
        val == SubSeq(ln, 1, m)
        rest == Strip(From(ln, m))
    IN  IF m = 0 THEN [ err |-> "", ln |-> ln, args |-> args ]
        ELSE IF val \in { << "!" >>, << "{", "i", "n", "v", "e", "r", "t", "}" >> }
             THEN PeelModifiers(rest, [ args EXCEPT !.inverse = TRUE ])
        ELSE IF val = << "{", "s", "t", "a", "t", "u", "s", "}" >>
             THEN PeelModifiers(rest, [ args EXCEPT !.instatus = TRUE ])
        ELSE IF val \in { << "{", "g", "r", "a", "p", "h", "i", "c", "}" >>,
                          << "{", "g", "r", "a", "p", "h", "i", "c", "s", "}" >> }
             THEN PeelModifiers(rest, [ args EXCEPT !.ingraphics = TRUE ])
        ELSE IF val = << "{", "v", "i", "t", "a", "l", "}" >>
             THEN PeelModifiers(rest, [ args EXCEPT !.vital = TRUE ])
        ELSE [ err |-> "Unknown test modifier", ln |-> ln, args |-> args ]

\* Command.addcheck(ln, linenum) on the list of checks of a command.  With
\* the built-in registry the loop over checkclasses always builds a Check:
\* LiteralCheck, the last class, takes every line.
Command_addcheck(checks, ln, linenum) ==
    LET p == PeelModifiers(ln, NoArgs)
    IN  IF p.err # "" THEN [ err |-> p.err, checks |-> checks ]
        ELSE [ err |-> "",
               checks |-> Append(checks, [ linenum |-> linenum, ln |-> p.ln,
                                           args |-> p.args ]) ]

\* RegTest(name) with the precmd parse_tests gives it, Command('(init)').
RegTest(name) ==
    [ name |-> name, precmd |-> [ cmd |-> "(init)", checks |-> << >> ], cmds |-> << >> ]

\* The step of the loop that reads a file shorter than the loop has read.
AtLine == plinenum < Len(pfile) /\ pt.err = ""

ThisLine == Strip(pfile[plinenum + 1])

\* "if (not ln or ln.startswith('#')): continue"
ParseSkip ==
    /\ AtLine /\ LineKind(ThisLine) = "skip"
    /\ plinenum' = plinenum + 1
    /\ UNCHANGED << pfile, pt, oldvars, ptrest >>

\* The branch for "**" lines: without a colon the line is passed over; a
\* key that is not known at this place raises; the known keys set globals
\* or fields of the test, not its commands.
ParseOption ==
    /\ AtLine /\ LineKind(ThisLine) = "option"
    /\ LET body == Strip(From(ThisLine, 2))
           pos == FindColon(body)
           key == Strip(SubSeq(body, 1, pos - 1))
       IN  pt' = IF pos = 0 THEN pt
                 ELSE IF pt.curtest = None
                      THEN IF key \in FileKeys THEN pt
                           ELSE [ pt EXCEPT !.err = "Unknown option" ]
                      ELSE IF key \in TestKeys THEN pt
                           ELSE [ pt EXCEPT !.err = "Unknown option" ]
    /\ plinenum' = plinenum + 1
    /\ UNCHANGED << pfile, oldvars, ptrest >>

\* The branch for "*" lines: a new test, with its pre-init command as the
\* current command.
ParseHeader ==
    /\ AtLine /\ LineKind(ThisLine) = "header"
    /\ LET name == Strip(From(ThisLine, 1))
       IN  pt' = IF \E i \in 1 .. Len(pt.tests) : pt.tests[i].name = name
                 THEN [ pt EXCEPT !.err = "Test name used twice" ]
                 ELSE [ pt EXCEPT !.tests = Append(@, RegTest(name)),
                                  !.curtest = Len(pt.tests) + 1,
                                  !.curcmd = 0 ]
    /\ plinenum' = plinenum + 1
    /\ UNCHANGED << pfile, oldvars, ptrest >>

\* The branch for ">" lines: "curcmd = Command(ln[1:]); curtest.addcmd(curcmd)".
\* Before the first test curtest is None and addcmd raises AttributeError.
ParseCommand ==
    /\ AtLine /\ LineKind(ThisLine) = "command"
    /\ pt' = IF pt.curtest = None
             THEN [ pt EXCEPT !.err = "AttributeError" ]
             ELSE [ pt EXCEPT !.tests[pt.curtest].cmds =
                                   Append(@, [ cmd |-> Strip(From(ThisLine, 1)),
                                               checks |-> << >> ]),
                              !.curcmd = Len(pt.tests[pt.curtest].cmds) + 1 ]
    /\ plinenum' = plinenum + 1
    /\ UNCHANGED << pfile, oldvars, ptrest >>

\* The last line of the loop body, "curcmd.addcheck(ln, linenum)".  Before
\* the first test curcmd is None and the call raises AttributeError.
ParseCheck ==
    /\ AtLine /\ LineKind(ThisLine) = "check"
    /\ pt' = IF pt.curcmd = None
             THEN [ pt EXCEPT !.err = "AttributeError" ]
             ELSE LET t == pt.curtest
                      c == pt.curcmd
                      old == IF c = 0 THEN pt.tests[t].precmd.checks
                             ELSE pt.tests[t].cmds[c].checks
                      r == Command_addcheck(old, ThisLine, plinenum + 1)
                  IN  IF r.err # "" THEN [ pt EXCEPT !.err = r.err ]
                      ELSE IF c = 0
                           THEN [ pt EXCEPT !.tests[t].precmd.checks = r.checks ]
                           ELSE [ pt EXCEPT !.tests[t].cmds[c].checks = r.checks ]
    /\ plinenum' = plinenum + 1
    /\ UNCHANGED << pfile, oldvars, ptrest >>

ParseInit ==
    /\ RemStart /\ DriverStart /\ RegStart /\ IncStart /\ IfoStart /\ RdStart
    /\ StrStart /\ SglStart /\ RsStart /\ GStart
    /\ terpformat = "cheap" /\ vital = 0
    /\ pfile \in FilesOf(MaxLines)
    /\ plinenum = 0
    /\ pt = PtEmpty

ParseNext == ParseSkip \/ ParseOption \/ ParseHeader \/ ParseCommand \/ ParseCheck

SpecParse == ParseInit /\ [][ParseNext]_vars

\* The check lines among the lines read, the number of "*" lines before
\* line i and the number of ">" lines between the last of them and line i.
IsCheckLine(i) == LineKind(Strip(pfile[i])) = "check"

HeadersBefore(i) ==
    Cardinality({ j \in 1 .. i - 1 : LineKind(Strip(pfile[j])) = "header" })

CommandsSince(i) ==
    Cardinality({ j \in 1 .. i - 1 :
                    /\ LineKind(Strip(pfile[j])) = "command"
                    /\ \A k \in j + 1 .. i - 1 : LineKind(Strip(pfile[k])) # "header" })

\* The checks of command c (0 for the pre-init command) of test t.
ChecksOf(t, c) ==
    IF c = 0 THEN pt.tests[t].precmd.checks ELSE pt.tests[t].cmds[c].checks

\* C36 as stated: every check line read is attached to exactly one command,
\* the most recent ">" command of the current test or the pre-init command
\* when there is none yet (before the first "*" line too), no check line
\* raises or is dropped, and the checks of a command are in file order.
C36_EveryCheckLineAttached ==
    /\ pt.err # "" => ~IsCheckLine(plinenum)
    /\ pt.err = "" =>
        /\ \A i \in 1 .. plinenum :
              IsCheckLine(i) =>
                /\ HeadersBefore(i) >= 1
                /\ \A t \in 1 .. Len(pt.tests) : \A c \in 0 .. Len(pt.tests[t].cmds) :
                      Cardinality({ k \in 1 .. Len(ChecksOf(t, c)) :
                                      ChecksOf(t, c)[k].linenum = i })
                        = (IF t = HeadersBefore(i) /\ c = CommandsSince(i) THEN 1 ELSE 0)
        /\ \A t \in 1 .. Len(pt.tests) : \A c \in 0 .. Len(pt.tests[t].cmds) :
              \A k \in 1 .. Len(ChecksOf(t, c)) - 1 :
                  ChecksOf(t, c)[k].linenum < ChecksOf(t, c)[k + 1].linenum

\* C37 as stated: applying a buffer content delta whose paragraph entry has
\* flowbreak set completes without error and leaves the paragraph the entry
\* contributes to with its flow-break flag set; the paragraph of an entry
\* without flowbreak has the flag clear.
C37_FlowbreakSetsFlag ==
    (/\ ifon >= 1 /\ OneParagraph(ifoupd) /\ ~IsSome(ifoupd.input)
     /\ HasWin(ifo.windowdic, 0) /\ 0 \notin ifopending.ifo
     /\ ~SkipsEmptyAppend(ifoupd.content[1][1].text[1])) =>
        LET p == ifoupd.content[1][1].text[1]
            lines == BufLinesOf(ifo)
        IN  /\ ifo.err = ""
            /\ lines # << >>
            /\ lines[Len(lines)].flowbreak = p.flowbreak

(***************************************************************************)
(* Claims about the checks of included tests (checked under SpecInc).      *)
(***************************************************************************)
\* The checks written below a command in the test file, told apart by the
\* command they are attached to.
CmdChecks(cmd) == << << cmd.type, cmd.cmd >> >>

RECURSIVE ChecksOfCommands(_)
\* "for cmd in cmdlist: ... for check in cmd.checks": the checks run()
\* evaluates for a command list, in order.
ChecksOfCommands(cmds) ==
    IF cmds = << >> THEN << >>
    ELSE CmdChecks(Head(cmds)) \o ChecksOfCommands(Tail(cmds))

\* The checks run() evaluates for a test with the expanded list cmds:
\* those of its pre-init command, then those of the commands of the list.
RunChecks(cmds) == CmdChecks(PreCmd) \o ChecksOfCommands(cmds)

\* C38: the checks written below an {include} command are never evaluated,
\* and the pre-command checks of an included test are not evaluated when it
\* is included: after the pre-command checks of the running test, the
\* checks evaluated are those attached to the commands of the expanded
\* list, one command after the other, none of which is an include or a
\* pre-init command.
C38_OnlyCommandChecksSpliced ==
    (incres # NoRes /\ incres.err = "") =>
        LET ev == RunChecks(incres.res)
        IN  /\ Len(ev) = 1 + Len(incres.res)
            /\ ev[1] = CmdChecks(PreCmd)[1]
            /\ \A k \in 1 .. Len(incres.res) :
                  /\ ev[k + 1] = << incres.res[k].type, incres.res[k].cmd >>
                  /\ ev[k + 1][1] # "include"
                  /\ ev[k + 1] # CmdChecks(PreCmd)[1]
                  /\ incres.res[k] \in
                        { incls[i] : i \in 1 .. Len(incls) }
                          \cup UNION { { incmap[n].cmds[i] : i \in 1 .. Len(incmap[n].cmds) } :
                                       n \in DOMAIN incmap }

\* A test that includes test a and then sends a line was expanded: the
\* checks evaluated are those before the first command, those of the
\* command of test a and those of the line.
C38_Witness ==
    /\ incres # NoRes /\ incres.err = ""
    /\ incls = << Command("include", "a"), Command("line", "x") >>
    /\ incmap["a"].cmds = << Command("char", "y") >>
    /\ RunChecks(incres.res) = << << "line", "(init)" >>, << "char", "y" >>, << "line", "x" >> >>

(***************************************************************************)
(* plotex.py: Graph.run.                                                   *)
(***************************************************************************)
\* The largest --genlimit tried.
MaxLimit == 3

\* A State: the int quality n and the boolean qualities it has.
PlotState(n, q) == [ n |-> n, q |-> q ]

\* What an action returns when it is not possible in a state (None).
NoState == [ n |-> 0 - 1, q |-> {} ]

\* "newstate <= oldstate", State.__le__: oldstate.contains(newstate), every
\* quality of x at least as good in y.
StateLe(x, y) == x.n <= y.n /\ x.q \subseteq y.q

\* The actions of the scenario, in the order of their names: Increment('n')
\* without a limit, Decrement('n'), Set(a=True), Set(b=True), and the chains
\* Chain(Lose('a'), Set(b=True)) and Chain(Lose('b'), Set(a=True)).
ActionNames == << "dec", "inc", "seta", "setb", "swapa", "swapb" >>

\* action(oldstate)
Apply(action, st) ==
    CASE action = "inc" -> PlotState(st.n + 1, st.q)
      [] action = "dec" -> IF st.n <= 0 THEN NoState ELSE PlotState(st.n - 1, st.q)
      [] action = "seta" -> PlotState(st.n, st.q \cup {"a"})
      [] action = "setb" -> PlotState(st.n, st.q \cup {"b"})
      [] action = "swapa" ->
            IF "a" \notin st.q THEN NoState ELSE PlotState(st.n, (st.q \ {"a"}) \cup {"b"})
      [] action = "swapb" ->
            IF "b" \notin st.q THEN NoState ELSE PlotState(st.n, (st.q \ {"b"}) \cup {"a"})

\* The lists of actions run() is called with (sorted by name), the start
\* states and the limits.
ActionLists ==
    { SelectSeq(ActionNames, LAMBDA a : a \in S) :
        S \in SUBSET { ActionNames[i] : i \in 1 .. Len(ActionNames) } }

StartLists ==
    { << PlotState(0, {}) >>, << PlotState(0, {"a"}) >>,
      << PlotState(0, {}), PlotState(0, {"a"}) >> }

\* self.states.get(state): the index of the node of a state, or 0.
NodeOf(nodes, st) ==
    IF \E i \in 1 .. Len(nodes) : nodes[i].state = st
    THEN CHOOSE i \in 1 .. Len(nodes) : nodes[i].state = st
    ELSE 0

RECURSIVE ApplyActions(_, _, _, _)
\* "for action in actions" for the state popped, oldstate: the nodes and the
\* list newstates after it.
ApplyActions(nodes, new, oldstate, actions) ==
    IF actions = << >> THEN [ nodes |-> nodes, new |-> new ]
    ELSE LET oldnode == nodes[NodeOf(nodes, oldstate)]
             newstate == Apply(Head(actions), oldstate)
             k == NodeOf(nodes, newstate)
         IN  IF \/ newstate = NoState
                \/ oldstate = newstate \/ newstate \in oldnode.ancestors
                \/ StateLe(newstate, oldstate)
             THEN ApplyActions(nodes, new, oldstate, Tail(actions))
             ELSE IF k # 0
                  THEN ApplyActions(
                           [ nodes EXCEPT ![k].ancestors = @ \cup oldnode.ancestors ],
                           new, oldstate, Tail(actions))
                  ELSE ApplyActions(
                           Append(nodes, [ state |-> newstate,
                                           ancestors |-> oldnode.ancestors \cup {newstate} ]),
                           Append(new, newstate), oldstate, Tail(actions))

\* A Graph is made and run() called: the loop over self.startstates.
GraphBegin ==
    /\ gpc = "idle"
    /\ \E al \in ActionLists, l \in 1 .. MaxLimit, sl \in StartLists :
        /\ gactions' = al /\ glimit' = l /\ gstart' = sl
        /\ gnodes' = [ i \in 1 .. Len(sl) |-> [ state |-> sl[i], ancestors |-> {sl[i]} ] ]
        /\ gnew' = sl
    /\ gpc' = "loop"
    /\ giters' = 0
    /\ UNCHANGED << oldvars, grest >>

\* One pass of the while loop that pops a state and tries every action.
GraphPass ==
    /\ gpc = "loop" /\ gnew # << >> /\ Len(gnodes) < glimit
    /\ LET r == ApplyActions(gnodes, Tail(gnew), Head(gnew), gactions)
       IN  gnodes' = r.nodes /\ gnew' = r.new
    /\ giters' = giters + 1
    /\ UNCHANGED << gactions, glimit, gstart, gpc, oldvars, grest >>

\* "if (len(self.states) >= limit): print 'WARNING: ...'; break"
GraphLimit ==
    /\ gpc = "loop" /\ gnew # << >> /\ Len(gnodes) >= glimit
    /\ gpc' = "done"
    /\ UNCHANGED << gactions, glimit, gstart, gnodes, gnew, giters, oldvars, grest >>

\* newstates is empty: the loop ends.
GraphDrained ==
    /\ gpc = "loop" /\ gnew = << >>
    /\ gpc' = "done"
    /\ UNCHANGED << gactions, glimit, gstart, gnodes, gnew, giters, oldvars, grest >>

\* The next graph.
GraphAgain ==
    /\ gpc = "done"
    /\ gactions' = << >> /\ glimit' = 0 /\ gstart' = << >>
    /\ gnodes' = << >> /\ gnew' = << >> /\ gpc' = "idle" /\ giters' = 0
    /\ UNCHANGED << oldvars, grest >>

GraphInit ==
    /\ RemStart /\ DriverStart /\ RegStart /\ IncStart /\ IfoStart /\ RdStart
    /\ MoreStart
    /\ terpformat = "cheap" /\ vital = 0

GraphNext == GraphBegin \/ GraphPass \/ GraphLimit \/ GraphDrained \/ GraphAgain

SpecGraph == GraphInit /\ [][GraphNext]_vars

\* C39 as stated: Graph.run terminates for every list of start states and
\* actions, actions that generate unboundedly many states included (the
\* while loop makes no more passes than the graph has states), and when it
\* returns the graph holds no more states than the limit (stated here for
\* the calls whose start states alone do not exceed the limit).
C39_RunStopsWithinLimit ==
    /\ giters <= Len(gnodes)
    /\ (gpc = "done" /\ Len(gstart) <= glimit) => Len(gnodes) <= glimit

====
